---- MODULE Spec2Model ----
(***************************************************************************)
(* oak: field policy engine (internal/types), redaction configuration      *)
(* (internal/config) and field extraction (internal/parser).               *)
(*                                                                         *)
(* A Go string is modelled as a sequence of one-character strings, so that *)
(* strings.ToLower, strings.TrimPrefix, strings.Split and fmt.Sprintf are  *)
(* computed character by character.                                        *)
(***************************************************************************)
EXTENDS Integers, Sequences, FiniteSets, TLC

(* bounds of the model *)
MaxFields == 3
MaxKeys == 2

VARIABLES
  pc,          \* position of the run: start, loaded, failed, ready
  yaml,        \* the oak.yaml file the run finds (or does not find)
  cfg,         \* the *config.Config the analyzer holds, Nil before loading
  astStruct,   \* the struct declaration of the source file (ast.StructType)
  extracted,   \* the parser.StructInfo extracted from it, Nil before
  lastAnalyses,\* the []FieldAnalysis the last AnalyzeStruct returned
  ret,         \* the last analyzer call: operation, arguments, result
  memo,        \* one earlier AnalyzeField call, kept to compare later
               \* calls with it; between: a call on another field followed
  srcTree,     \* the processing target: its mode and the files and
               \* directories found at its paths
  runLoop,     \* run's loop over the paths: next index, allStructs, error
  parseRet,    \* the last ParseFile or ParsePackage call and its result
  opts,        \* the cli.Options of the command line
  cliRet,      \* the last call on the options and its result
  written,     \* the package groups generated and written so far
  logged       \* a field value and what the generated statement logs

parseVars == <<srcTree, runLoop, parseRet>>

cliVars == <<opts, cliRet>>

outVars == <<written, logged>>

vars == <<pc, yaml, cfg, astStruct, extracted, lastAnalyses, ret, memo,
          srcTree, runLoop, parseRet, opts, cliRet, written, logged>>

(* ------------------------------------------------------------------ *)
(* strings                                                             *)
(* ------------------------------------------------------------------ *)
Uppers == <<"A","B","C","D","E","F","G","H","I","J","K","L","M","N","O","P","Q","R","S","T","U","V","W","X","Y","Z">>
Lowers == <<"a","b","c","d","e","f","g","h","i","j","k","l","m","n","o","p","q","r","s","t","u","v","w","x","y","z">>

(* the character ` (the lexer does not take it inside a string) *)
Backquote == "BQ"

RECURSIVE Concat(_)
Concat(parts) ==
  IF parts = <<>> THEN <<>> ELSE Head(parts) \o Concat(Tail(parts))

HasPrefix(s, prefix) ==
  /\ Len(s) >= Len(prefix)
  /\ SubSeq(s, 1, Len(prefix)) = prefix

HasSuffix(s, suffix) ==
  /\ Len(s) >= Len(suffix)
  /\ SubSeq(s, Len(s) - Len(suffix) + 1, Len(s)) = suffix

TrimPrefix(s, prefix) ==
  IF HasPrefix(s, prefix) THEN SubSeq(s, Len(prefix) + 1, Len(s)) ELSE s

Contains(s, substr) ==
  \E i \in 1..(Len(s) - Len(substr) + 1) :
    SubSeq(s, i, i + Len(substr) - 1) = substr

ToLowerChar(c) ==
  IF \E i \in 1..Len(Uppers) : Uppers[i] = c
    THEN Lowers[CHOOSE i \in 1..Len(Uppers) : Uppers[i] = c]
    ELSE c

ToLower(s) == [i \in 1..Len(s) |-> ToLowerChar(s[i])]

(* strings.Split(s, sep) for a one-character separator *)
RECURSIVE SplitFrom(_, _, _)
SplitFrom(s, sep, cur) ==
  IF s = <<>> THEN <<cur>>
  ELSE IF Head(s) = sep THEN <<cur>> \o SplitFrom(Tail(s), sep, <<>>)
  ELSE SplitFrom(Tail(s), sep, Append(cur, Head(s)))

Split(s, sep) == SplitFrom(s, sep, <<>>)

(* the first index of character c in s, 0 when absent (strings.Index + 1) *)
IndexOf(s, c) ==
  IF \E i \in 1..Len(s) : s[i] = c
    THEN CHOOSE i \in 1..Len(s) : s[i] = c /\ \A j \in 1..(i - 1) : s[j] # c
    ELSE 0

(* ------------------------------------------------------------------ *)
(* internal/types: constants                                           *)
(* ------------------------------------------------------------------ *)
SlogInt64 == <<"s","l","o","g",".","I","n","t","6","4">>
SlogString == <<"s","l","o","g",".","S","t","r","i","n","g">>
SlogBool == <<"s","l","o","g",".","B","o","o","l">>
SlogFloat64 == <<"s","l","o","g",".","F","l","o","a","t","6","4">>
SlogAny == <<"s","l","o","g",".","A","n","y">>
NoSlogFunc == <<>>

ActionLog == 0
ActionRedact == 1
ActionSkip == 2

(* ------------------------------------------------------------------ *)
(* internal/config                                                     *)
(* ------------------------------------------------------------------ *)
DefaultRedactMessage == <<"[","R","E","D","A","C","T","E","D","]">>

DefaultConfig ==
  [Packages |-> << <<".">> >>, RedactKeys |-> <<>>,
   RedactMessage |-> DefaultRedactMessage]

(* yaml.Unmarshal into a Config holding the defaults: a key the file sets
   replaces the field, a key the file leaves out keeps the default *)
Unmarshal(file, config) ==
  [Packages |-> IF "packages" \in file.has THEN file.packages
                ELSE config.Packages,
   RedactKeys |-> IF "redactKeys" \in file.has THEN file.redactKeys
                  ELSE config.RedactKeys,
   RedactMessage |-> IF "redactMessage" \in file.has THEN file.redactMessage
                     ELSE config.RedactMessage]

(* the directories that exist below the working directory *)
ExistingPaths == { <<".">>, <<".","/","p","k","g">> }

IsAbs(path) == Len(path) > 0 /\ path[1] = "/"

(* validate without the lower-casing of the trigger names *)
validate_KeepCase(c) ==
  LET msg == IF c.RedactMessage = <<>> THEN DefaultRedactMessage
             ELSE c.RedactMessage
      bad(pkg) == \/ pkg = <<>>
                  \/ ~IsAbs(pkg) /\ pkg \notin ExistingPaths
  IN [config |-> [Packages |-> c.Packages, RedactKeys |-> c.RedactKeys,
                  RedactMessage |-> msg],
      err |-> \E i \in 1..Len(c.Packages) : bad(c.Packages[i])]

(* validate without the default for an empty message *)
validate_KeepEmptyMessage(c) ==
  LET keys == [i \in 1..Len(c.RedactKeys) |-> ToLower(c.RedactKeys[i])]
      bad(pkg) == \/ pkg = <<>>
                  \/ ~IsAbs(pkg) /\ pkg \notin ExistingPaths
  IN [config |-> [Packages |-> c.Packages, RedactKeys |-> keys,
                  RedactMessage |-> c.RedactMessage],
      err |-> \E i \in 1..Len(c.Packages) : bad(c.Packages[i])]

(* Config.validate: the normalised config and the error, if any *)
validate(c) ==
  LET keys == [i \in 1..Len(c.RedactKeys) |-> ToLower(c.RedactKeys[i])]
      msg == IF c.RedactMessage = <<>> THEN DefaultRedactMessage
             ELSE c.RedactMessage
      bad(pkg) == \/ pkg = <<>>
                  \/ ~IsAbs(pkg) /\ pkg \notin ExistingPaths
  IN [config |-> [Packages |-> c.Packages, RedactKeys |-> keys,
                  RedactMessage |-> msg],
      err |-> \E i \in 1..Len(c.Packages) : bad(c.Packages[i])]

(* Config.ShouldRedactField *)
ShouldRedactField(c, fieldName) ==
  LET fieldLower == ToLower(fieldName)
  IN \E i \in 1..Len(c.RedactKeys) : fieldLower = c.RedactKeys[i]

(* ------------------------------------------------------------------ *)
(* internal/parser: type expressions, tags, field extraction           *)
(* ------------------------------------------------------------------ *)
Nil == [kind |-> "nil"]

Ident(name) == [kind |-> "Ident", Name |-> name]
StarExpr(x) == [kind |-> "StarExpr", X |-> x]
ArrayType(len, elt) == [kind |-> "ArrayType", Len |-> len, Elt |-> elt]
MapType(key, value) == [kind |-> "MapType", Key |-> key, Value |-> value]
SelectorExpr(x, sel) == [kind |-> "SelectorExpr", X |-> x, Sel |-> sel]
InterfaceType == [kind |-> "InterfaceType"]
FuncType == [kind |-> "FuncType"]
BasicLit(value) == [kind |-> "BasicLit", Value |-> value]
ChanType(value) == [kind |-> "ChanType", Value |-> value]
ParenExpr(x) == [kind |-> "ParenExpr", X |-> x]
IndexExpr(x, index) == [kind |-> "IndexExpr", X |-> x, Index |-> index]

RECURSIVE typeToString(_)
typeToString_NoInterface(expr) ==
  CASE expr.kind = "Ident" -> expr.Name
    [] expr.kind = "StarExpr" -> <<"*">> \o typeToString(expr.X)
    [] expr.kind = "ArrayType" ->
         IF expr.Len = Nil THEN <<"[", "]">> \o typeToString(expr.Elt)
         ELSE <<"[">> \o typeToString(expr.Len) \o <<"]">>
              \o typeToString(expr.Elt)
    [] expr.kind = "MapType" ->
         <<"m","a","p","[">> \o typeToString(expr.Key) \o <<"]">>
         \o typeToString(expr.Value)
    [] expr.kind = "SelectorExpr" ->
         typeToString(expr.X) \o <<".">> \o expr.Sel
    [] OTHER -> <<"u","n","k","n","o","w","n">>

typeToString(expr) ==
  CASE expr.kind = "Ident" -> expr.Name
    [] expr.kind = "StarExpr" -> <<"*">> \o typeToString(expr.X)
    [] expr.kind = "ArrayType" ->
         IF expr.Len = Nil THEN <<"[", "]">> \o typeToString(expr.Elt)
         ELSE <<"[">> \o typeToString(expr.Len) \o <<"]">>
              \o typeToString(expr.Elt)
    [] expr.kind = "MapType" ->
         <<"m","a","p","[">> \o typeToString(expr.Key) \o <<"]">>
         \o typeToString(expr.Value)
    [] expr.kind = "SelectorExpr" ->
         typeToString(expr.X) \o <<".">> \o expr.Sel
    [] expr.kind = "InterfaceType" -> <<"i","n","t","e","r","f","a","c","e","{","}">>
    [] OTHER -> <<"u","n","k","n","o","w","n">>

isPointerType_Slices(expr) == expr.kind \in {"StarExpr", "ArrayType"}

isPointerType(expr) == expr.kind = "StarExpr"

(* the loop of extractLogTag over the space-separated parts of the tag *)
RECURSIVE extractLogTagParts(_)
extractLogTagParts(parts) ==
  IF parts = <<>> THEN <<>>
  ELSE LET part == Head(parts)
           colon == IndexOf(part, ":")
           value == SubSeq(part, colon + 1, Len(part))
       IN IF /\ HasPrefix(part, <<"l","o","g",":">>)
             /\ colon >= 1 /\ colon < Len(part)
             /\ Len(value) >= 2
             /\ value[1] = "\"" /\ value[Len(value)] = "\""
            THEN SubSeq(value, 2, Len(value) - 1)
            ELSE extractLogTagParts(Tail(parts))

extractLogTag_KeepBackquotes(tagValue) ==
  extractLogTagParts(Split(tagValue, " "))

extractLogTag(tagValue) ==
  LET n == Len(tagValue)
      inner == IF n >= 2 /\ tagValue[1] = Backquote /\ tagValue[n] = Backquote
               THEN SubSeq(tagValue, 2, n - 1) ELSE tagValue
  IN extractLogTagParts(Split(inner, " "))

(* the FieldInfo of one name of a field group *)
fieldInfoOf(name, group) ==
  [Name |-> name,
   Type |-> typeToString(group.Type),
   Tag |-> IF group.Tag # Nil THEN group.Tag.Value ELSE <<>>,
   LogTag |-> IF group.Tag # Nil THEN extractLogTag(group.Tag.Value)
              ELSE <<>>,
   IsPointer |-> isPointerType(group.Type)]

RECURSIVE extractFieldsFrom(_, _)
extractFieldsFrom(list, fields) ==
  IF list = <<>> THEN fields
  ELSE LET field == Head(list)
           new == IF Len(field.Names) = 0
                  THEN << fieldInfoOf(typeToString(field.Type), field) >>
                  ELSE [i \in 1..Len(field.Names) |->
                          fieldInfoOf(field.Names[i], field)]
       IN extractFieldsFrom(Tail(list), fields \o new)

extractFields_OnePerGroup(structType) ==
  [i \in 1..Len(structType.Fields) |->
     LET field == structType.Fields[i]
     IN fieldInfoOf(IF Len(field.Names) = 0 THEN typeToString(field.Type)
                    ELSE field.Names[1], field)]

extractFields(structType) == extractFieldsFrom(structType.Fields, <<>>)

(* ------------------------------------------------------------------ *)
(* internal/parser: files, directives, struct declarations             *)
(* ------------------------------------------------------------------ *)
IsSpace(c) == c \in {" ", "\t", "\n", "\r"}

(* strings.TrimSpace *)
TrimSpace(s) ==
  LET solid == {i \in 1..Len(s) : ~IsSpace(s[i])}
  IN IF solid = {} THEN <<>>
     ELSE SubSeq(s, CHOOSE i \in solid : \A j \in solid : i <= j,
                    CHOOSE i \in solid : \A j \in solid : i >= j)

(* the nodes of a file that ast.Inspect passes through on its way to a
   type declaration: general declarations (import, const, type, var)
   with their specs, and functions with the statements of their body *)
TypeSpec(name, type) == [kind |-> "TypeSpec", Name |-> name, Type |-> type]
ValueSpec(name, type) == [kind |-> "ValueSpec", Name |-> name, Type |-> type]
GenDecl(tok, specs) == [kind |-> "GenDecl", Tok |-> tok, Specs |-> specs]
FuncDecl(name, body) == [kind |-> "FuncDecl", Name |-> name, Body |-> body]
StructType(fields) == [kind |-> "StructType", Fields |-> fields]

(* the text of a comment after the delimiters are taken off *)
directiveText(commentText) ==
  LET text == TrimSpace(commentText)
  IN IF HasPrefix(text, <<"/","/">>)
       THEN TrimSpace(SubSeq(text, 3, Len(text)))
     ELSE IF HasPrefix(text, <<"/","*">>) /\ HasSuffix(text, <<"*","/">>)
       THEN TrimSpace(SubSeq(text, 3, Len(text) - 2))
     ELSE text

hasOakDirective(file) ==
  \E g \in 1..Len(file.Comments) :
    \E k \in 1..Len(file.Comments[g]) :
      HasPrefix(directiveText(file.Comments[g][k]), <<"g","o",":","g","e","n","e","r","a","t","e"," ","o","a","k">>)

(* the type specs of one type declaration that define a struct *)
RECURSIVE structsOfSpecs(_, _, _)
structsOfSpecs(specs, file, filePath) ==
  IF specs = <<>> THEN <<>>
  ELSE LET typeSpec == Head(specs)
           here == IF typeSpec.kind = "TypeSpec"
                      /\ typeSpec.Type.kind = "StructType"
                   THEN << [Name |-> typeSpec.Name,
                            PackageName |-> file.Name,
                            FilePath |-> filePath,
                            Fields |-> extractFields(typeSpec.Type)] >>
                   ELSE <<>>
       IN here \o structsOfSpecs(Tail(specs), file, filePath)

(* the walk of ast.Inspect, which goes into function bodies as well *)
RECURSIVE inspectNodes(_, _, _)
inspectNodes(nodes, file, filePath) ==
  IF nodes = <<>> THEN <<>>
  ELSE LET n == Head(nodes)
           here == CASE n.kind = "GenDecl" /\ n.Tok = "type" ->
                          structsOfSpecs(n.Specs, file, filePath)
                     [] n.kind = "FuncDecl" ->
                          inspectNodes(n.Body, file, filePath)
                     [] OTHER -> <<>>
       IN here \o inspectNodes(Tail(nodes), file, filePath)

extractStructs(file, filePath) == inspectNodes(file.Decls, file, filePath)

(* an error value: nil or a message *)
NoError == [isNil |-> TRUE]
Errorf(msg) == [isNil |-> FALSE, msg |-> msg]

(* what go/parser reports for a file it cannot parse *)
syntaxError(filePath) == Errorf(filePath \o <<":","1",":","1",":"," ","e","x","p","e","c","t","e","d"," ","d","e","c","l","a","r","a","t","i","o","n">>)

ParseFile_MarkerRequired(file, filePath) ==
  IF ~file.syntaxOK \/ ~hasOakDirective(file)
    THEN [result |-> Nil,
          err |-> Errorf(<<"f","a","i","l","e","d"," ","t","o"," ","p","a","r","s","e"," ","f","i","l","e"," ">> \o filePath \o <<":"," ">>
                         \o syntaxError(filePath).msg)]
  ELSE [result |-> [Structs |-> extractStructs(file, filePath)],
        err |-> NoError]

ParseFile_Unfiltered(file, filePath) ==
  IF ~file.syntaxOK
    THEN [result |-> Nil,
          err |-> Errorf(<<"f","a","i","l","e","d"," ","t","o"," ","p","a","r","s","e"," ","f","i","l","e"," ">> \o filePath \o <<":"," ">>
                         \o syntaxError(filePath).msg)]
  ELSE [result |-> [Structs |-> extractStructs(file, filePath)],
        err |-> NoError]

(* ParseFile on the file found at filePath *)
ParseFile(file, filePath) ==
  IF ~file.syntaxOK
    THEN [result |-> Nil,
          err |-> Errorf(<<"f","a","i","l","e","d"," ","t","o"," ","p","a","r","s","e"," ","f","i","l","e"," ">> \o filePath \o <<":"," ">>
                         \o syntaxError(filePath).msg)]
  ELSE IF ~hasOakDirective(file)
    THEN [result |-> [Structs |-> <<>>], err |-> NoError]
  ELSE [result |-> [Structs |-> extractStructs(file, filePath)],
        err |-> NoError]

(* the loops of ParsePackage over the parsed files, taken in order *)
RECURSIVE structsOfFiles(_, _)
structsOfFiles(files, order) ==
  IF order = <<>> THEN <<>>
  ELSE LET file == files[Head(order)]
       IN (IF ~hasOakDirective(file) THEN <<>>
           ELSE extractStructs(file, file.path))
          \o structsOfFiles(files, Tail(order))

(* ParsePackage on the directory dir; parser.ParseDir keeps the files in
   maps, order is the order in which the two range loops meet them *)
ParsePackage(dir, order) ==
  LET bad == {i \in 1..Len(dir.files) : ~dir.files[i].syntaxOK}
      first == CHOOSE i \in bad : \A j \in bad : i <= j
  IN IF bad # {}
       THEN [result |-> Nil,
             err |-> Errorf(<<"f","a","i","l","e","d"," ","t","o"," ","p","a","r","s","e"," ","p","a","c","k","a","g","e"," ">> \o dir.path \o <<":"," ">>
                            \o syntaxError(dir.files[first].path).msg)]
     ELSE [result |-> [Structs |-> structsOfFiles(dir.files, order)],
           err |-> NoError]

RECURSIVE Perms(_)
Perms(S) ==
  IF S = {} THEN {<<>>}
  ELSE UNION { {<<x>> \o p : p \in Perms(S \ {x})} : x \in S }

(* the orders of the range loops: packages in any order, the files of
   one package in any order, one package after the other *)
RangeOrders(dir) ==
  { o \in Perms(1..Len(dir.files)) :
      \A i, j, k \in 1..Len(o) :
        (i < j /\ j < k /\ dir.files[o[i]].Name = dir.files[o[k]].Name)
          => dir.files[o[j]].Name = dir.files[o[i]].Name }

(* ------------------------------------------------------------------ *)
(* internal/types: TypeAnalyzer; c is the analyzer's config            *)
(* ------------------------------------------------------------------ *)
shouldRedactField(c, field) ==
  IF field.LogTag = <<"-">> THEN FALSE
  ELSE IF field.LogTag = <<"r","e","d","a","c","t">> THEN TRUE
  ELSE ShouldRedactField(c, field.Name)

IntTypes == { <<"i","n","t">>, <<"i","n","t","8">>, <<"i","n","t","1","6">>, <<"i","n","t","3","2">>, <<"i","n","t","6","4">> }
UintTypes == { <<"u","i","n","t">>, <<"u","i","n","t","8">>, <<"u","i","n","t","1","6">>, <<"u","i","n","t","3","2">>, <<"u","i","n","t","6","4">> }
FloatTypes == { <<"f","l","o","a","t","3","2">>, <<"f","l","o","a","t","6","4">> }

(* getSlogFunction classifying the signature with its "*" left on *)
getSlogFunction_NoStrip(field) ==
  LET fieldType == field.Type
  IN CASE fieldType \in IntTypes -> SlogInt64
       [] fieldType \in UintTypes -> SlogInt64
       [] fieldType = <<"s","t","r","i","n","g">> -> SlogString
       [] fieldType = <<"b","o","o","l">> -> SlogBool
       [] fieldType \in FloatTypes -> SlogFloat64
       [] OTHER -> SlogAny

getSlogFunction(field) ==
  LET fieldType == IF field.IsPointer THEN TrimPrefix(field.Type, <<"*">>)
                   ELSE field.Type
  IN CASE fieldType \in IntTypes -> SlogInt64
       [] fieldType \in UintTypes -> SlogInt64
       [] fieldType = <<"s","t","r","i","n","g">> -> SlogString
       [] fieldType = <<"b","o","o","l">> -> SlogBool
       [] fieldType \in FloatTypes -> SlogFloat64
       [] OTHER -> SlogAny

(* AnalyzeField without the early return for log:"-" *)
AnalyzeField_NoSkip(c, field) ==
  IF shouldRedactField(c, field)
    THEN [Field |-> field, Action |-> ActionRedact, SlogFunc |-> SlogString,
          LogValue |-> c.RedactMessage]
  ELSE [Field |-> field, Action |-> ActionLog,
        SlogFunc |-> getSlogFunction(field), LogValue |-> <<>>]

(* AnalyzeField filling one analysis value shared by all calls: a field
   the current call does not set keeps what the previous call left *)
AnalyzeField_Shared(c, field) ==
  LET prev == IF ret.op = "AnalyzeField" THEN ret.val
              ELSE [SlogFunc |-> NoSlogFunc, LogValue |-> <<>>]
  IN IF field.LogTag = <<"-">>
       THEN [Field |-> field, Action |-> ActionSkip,
             SlogFunc |-> prev.SlogFunc, LogValue |-> prev.LogValue]
     ELSE IF shouldRedactField(c, field)
       THEN [Field |-> field, Action |-> ActionRedact,
             SlogFunc |-> SlogString, LogValue |-> c.RedactMessage]
     ELSE [Field |-> field, Action |-> ActionLog,
           SlogFunc |-> getSlogFunction(field), LogValue |-> prev.LogValue]

(* AnalyzeField keeping the field's own strategy when it redacts *)
AnalyzeField_OwnStrategy(c, field) ==
  IF field.LogTag = <<"-">>
    THEN [Field |-> field, Action |-> ActionSkip, SlogFunc |-> NoSlogFunc,
          LogValue |-> <<>>]
  ELSE IF shouldRedactField(c, field)
    THEN [Field |-> field, Action |-> ActionRedact,
          SlogFunc |-> getSlogFunction(field),
          LogValue |-> c.RedactMessage]
  ELSE [Field |-> field, Action |-> ActionLog,
        SlogFunc |-> getSlogFunction(field), LogValue |-> <<>>]

AnalyzeField(c, field) ==
  IF field.LogTag = <<"-">>
    THEN [Field |-> field, Action |-> ActionSkip, SlogFunc |-> NoSlogFunc,
          LogValue |-> <<>>]
  ELSE IF shouldRedactField(c, field)
    THEN [Field |-> field, Action |-> ActionRedact, SlogFunc |-> SlogString,
          LogValue |-> c.RedactMessage]
  ELSE [Field |-> field, Action |-> ActionLog,
        SlogFunc |-> getSlogFunction(field), LogValue |-> <<>>]

(* AnalyzeStruct leaving the skipped fields out of its result *)
RECURSIVE AnalyzeStructLoop_DropSkipped(_, _, _)
AnalyzeStructLoop_DropSkipped(c, fields, analyses) ==
  IF fields = <<>> THEN analyses
  ELSE LET analysis == AnalyzeField(c, Head(fields))
       IN AnalyzeStructLoop_DropSkipped(c, Tail(fields),
            IF analysis.Action = ActionSkip THEN analyses
            ELSE Append(analyses, analysis))

RECURSIVE AnalyzeStructLoop(_, _, _)
AnalyzeStructLoop(c, fields, analyses) ==
  IF fields = <<>> THEN analyses
  ELSE AnalyzeStructLoop(c, Tail(fields),
                         Append(analyses, AnalyzeField(c, Head(fields))))

AnalyzeStruct(c, structInfo) == AnalyzeStructLoop(c, structInfo.Fields, <<>>)

getFieldAccessor(field, receiverName) ==
  receiverName \o <<".">> \o field.Name

(* fmt.Sprintf(`%s("%s", %s)`, slogFunc, fieldName, value) *)
Direct(slogFunc, fieldName, value) ==
  Concat(<< slogFunc, <<"(","\"">>, fieldName, <<"\"",","," ">>, value, <<")">> >>)

(* a pointer field dereferenced with no nil check around it *)
NilChecked_NoNilCheck(fieldAccessor, fieldName, slogFunc, conv) ==
  Direct(slogFunc, fieldName,
         conv \o <<"*">> \o fieldAccessor
         \o (IF conv = <<>> THEN <<>> ELSE <<")">>))

(* a pointer field dereferenced with no conversion of the value *)
NilChecked_NoConv(fieldAccessor, fieldName, slogFunc, conv) ==
  Concat(<< <<"f","u","n","c","(",")"," ","s","l","o","g",".","A","t","t","r"," ","{","\n","\t","\t","\t","\t","i","f"," ">>, fieldAccessor,
            <<" ","=","="," ","n","i","l"," ","{","\n","\t","\t","\t","\t","\t","r","e","t","u","r","n"," ","s","l","o","g",".","S","t","r","i","n","g","(","\"">>, fieldName,
            <<"\"",","," ","\"","n","u","l","l","\"",")","\n","\t","\t","\t","\t","}","\n","\t","\t","\t","\t","r","e","t","u","r","n"," ">>, slogFunc,
            <<"(","\"">>, fieldName, <<"\"",","," ">>, <<"*">>, fieldAccessor,
            <<")","\n","\t","\t","\t","}","(",")">> >>)

(* the closure emitted for a pointer field: a nil check that logs "null",
   then the dereferenced value, converted when conv is not empty *)
NilChecked(fieldAccessor, fieldName, slogFunc, conv) ==
  Concat(<< <<"f","u","n","c","(",")"," ","s","l","o","g",".","A","t","t","r"," ","{","\n","\t","\t","\t","\t","i","f"," ">>, fieldAccessor,
            <<" ","=","="," ","n","i","l"," ","{","\n","\t","\t","\t","\t","\t","r","e","t","u","r","n"," ","s","l","o","g",".","S","t","r","i","n","g","(","\"">>, fieldName,
            <<"\"",","," ","\"","n","u","l","l","\"",")","\n","\t","\t","\t","\t","}","\n","\t","\t","\t","\t","r","e","t","u","r","n"," ">>, slogFunc,
            <<"(","\"">>, fieldName, <<"\"",","," ">>, conv, <<"*">>, fieldAccessor,
            IF conv = <<>> THEN <<>> ELSE <<")">>,
            <<")","\n","\t","\t","\t","}","(",")">> >>)

(* a conversion emitted for every non-pointer numeric field *)
needsConversion_Always(field, canonical) == TRUE

(* analysis.Field.Type != "int64", analysis.Field.Type != "float64" *)
needsConversion(field, canonical) == field.Type # canonical

generateNormalLogStatement(analysis, receiverName) ==
  LET fieldName == analysis.Field.Name
      fieldAccessor == getFieldAccessor(analysis.Field, receiverName)
      f == analysis.SlogFunc
  IN CASE f = SlogInt64 ->
            IF analysis.Field.IsPointer
              THEN NilChecked(fieldAccessor, fieldName, SlogInt64, <<"i","n","t","6","4","(">>)
            ELSE IF needsConversion(analysis.Field, <<"i","n","t","6","4">>)
              THEN Direct(f, fieldName,
                          <<"i","n","t","6","4","(">> \o fieldAccessor \o <<")">>)
            ELSE Direct(f, fieldName, fieldAccessor)
       [] f = SlogFloat64 ->
            IF analysis.Field.IsPointer
              THEN NilChecked(fieldAccessor, fieldName, SlogFloat64,
                              <<"f","l","o","a","t","6","4","(">>)
            ELSE IF needsConversion(analysis.Field, <<"f","l","o","a","t","6","4">>)
              THEN Direct(f, fieldName,
                          <<"f","l","o","a","t","6","4","(">> \o fieldAccessor \o <<")">>)
            ELSE Direct(f, fieldName, fieldAccessor)
       [] f \in {SlogString, SlogBool} ->
            IF analysis.Field.IsPointer
              THEN NilChecked(fieldAccessor, fieldName, f, <<>>)
            ELSE Direct(f, fieldName, fieldAccessor)
       [] f = SlogAny ->
            IF analysis.Field.IsPointer
              THEN NilChecked(fieldAccessor, fieldName, f, <<>>)
            ELSE Direct(f, fieldName, fieldAccessor)
       [] OTHER -> Direct(SlogAny, fieldName, fieldAccessor)

GenerateLogStatement_LeakRedacted(analysis, receiverName) ==
  CASE analysis.Action = ActionSkip -> <<>>
    [] analysis.Action = ActionLog ->
         generateNormalLogStatement(analysis, receiverName)
    [] OTHER ->
         Direct(SlogString, analysis.Field.Name,
                getFieldAccessor(analysis.Field, receiverName))

GenerateLogStatement(analysis, receiverName) ==
  CASE analysis.Action = ActionSkip -> <<>>
    [] analysis.Action = ActionRedact ->
         Concat(<< analysis.SlogFunc, <<"(","\"">>, analysis.Field.Name, <<"\"",","," ","\"">>,
                   analysis.LogValue, <<"\"",")">> >>)
    [] analysis.Action = ActionLog ->
         generateNormalLogStatement(analysis, receiverName)
    [] OTHER ->
         Direct(SlogAny, analysis.Field.Name,
                getFieldAccessor(analysis.Field, receiverName))

(* the loop of HasLoggableFields looking for a Log action only *)
RECURSIVE anyNotSkip_OnlyLog(_)
anyNotSkip_OnlyLog(analyses) ==
  IF analyses = <<>> THEN FALSE
  ELSE IF Head(analyses).Action = ActionLog THEN TRUE
  ELSE anyNotSkip_OnlyLog(Tail(analyses))

RECURSIVE anyNotSkip(_)
anyNotSkip(analyses) ==
  IF analyses = <<>> THEN FALSE
  ELSE IF Head(analyses).Action # ActionSkip THEN TRUE
  ELSE anyNotSkip(Tail(analyses))

HasLoggableFields(c, structInfo) == anyNotSkip(AnalyzeStruct(c, structInfo))

(* ------------------------------------------------------------------ *)
(* the emitted statement at run time: integer values                   *)
(* ------------------------------------------------------------------ *)
(* an integer of up to 64 bits is its bit pattern in four limbs of 16
   bits, the lowest first *)
Limbs == 4
LimbBits == 16
LimbBase == 2 ^ LimbBits

(* the bits of a type of the integer table; wordSize is the size of int
   and uint on the platform *)
BitsOf(typeName, wordSize) ==
  CASE typeName \in {<<"i","n","t","8">>, <<"u","i","n","t","8">>} -> 8
    [] typeName \in {<<"i","n","t","1","6">>, <<"u","i","n","t","1","6">>} -> 16
    [] typeName \in {<<"i","n","t","3","2">>, <<"u","i","n","t","3","2">>} -> 32
    [] typeName \in {<<"i","n","t","6","4">>, <<"u","i","n","t","6","4">>} -> 64
    [] typeName \in {<<"i","n","t">>, <<"u","i","n","t">>} -> wordSize

IsSigned(typeName) == typeName \in IntTypes

(* the number of values limb i holds in a pattern of w bits *)
LimbMod(w, i) ==
  IF w >= LimbBits * i THEN LimbBase
  ELSE IF w > LimbBits * (i - 1) THEN 2 ^ (w - LimbBits * (i - 1))
  ELSE 1

TopLimb(w) == (w + LimbBits - 1) \div LimbBits

RECURSIVE AddFrom(_, _, _, _)
AddFrom(p, i, carry, w) ==
  IF i > Limbs THEN <<>>
  ELSE LET t == p[i] + carry
           r == t % LimbMod(w, i)
       IN <<r>> \o AddFrom(p, i + 1, (t - r) \div LimbMod(w, i), w)

(* p + d modulo 2^w, for a small d of either sign *)
AddInt(p, d, w) == AddFrom(p, 1, d, w)

Complement(p, w) == [i \in 1..Limbs |-> LimbMod(w, i) - 1 - p[i]]

SignBit(p, w) == p[TopLimb(w)] >= LimbMod(w, TopLimb(w)) \div 2

(* the number a pattern of w bits stands for: its sign and magnitude *)
Number(p, w, signed) ==
  IF signed /\ SignBit(p, w)
    THEN [neg |-> TRUE, mag |-> AddInt(Complement(p, w), 1, w)]
    ELSE [neg |-> FALSE, mag |-> p]

(* int64(x) for an x of the named type: a signed value is sign
   extended, an unsigned one zero extended, and 64 bits are kept *)
int64(typeName, wordSize, p) ==
  LET w == BitsOf(typeName, wordSize)
  IN IF IsSigned(typeName) /\ SignBit(p, w)
       THEN [i \in 1..Limbs |-> p[i] + (LimbBase - LimbMod(w, i))]
       ELSE p

(* ------------------------------------------------------------------ *)
(* internal/cli: options, processing target, path expansion            *)
(* ------------------------------------------------------------------ *)
ModeConfig == "ModeConfig"
ModeSourceFile == "ModeSourceFile"
ModePackage == "ModePackage"
ModePositional == "ModePositional"

(* the working directory: files and directories, the entries of a
   directory in the order of their names, as os.ReadDir gives them *)
File(name) == [name |-> name, isDir |-> FALSE, entries |-> <<>>]
Folder(name, entries) == [name |-> name, isDir |-> TRUE, entries |-> entries]

WorkingDir ==
  Folder(<<".">>,
         << Folder(<<".","g","i","t">>, << File(<<"h","o","o","k",".","g","o">>) >>),
            File(<<"R","E","A","D","M","E",".","m","d">>),
            Folder(<<"c","m","d">>, << Folder(<<"o","a","k">>, << File(<<"m","a","i","n",".","g","o">>) >>) >>),
            Folder(<<"d","o","c","s">>, << File(<<"g","u","i","d","e",".","m","d">>) >>),
            File(<<"m","a","i","n",".","g","o">>),
            Folder(<<"p","k","g">>, << File(<<"a",".","g","o">>),
                             Folder(<<"s","u","b">>, << File(<<"b",".","g","o">>) >>) >>),
            Folder(<<"v","e","n","d","o","r">>, << Folder(<<"l","i","b">>, << File(<<"v",".","g","o">>) >>) >>) >>)

NoEntry == [name |-> <<>>, isDir |-> FALSE, entries |-> <<>>, missing |-> TRUE]

(* the entry the path elements lead to from a directory *)
RECURSIVE Lookup(_, _)
Lookup(node, elements) ==
  IF elements = <<>> THEN node
  ELSE IF Head(elements) \in {<<>>, <<".">>}
    THEN Lookup(node, Tail(elements))
  ELSE IF \E i \in 1..Len(node.entries) :
            node.entries[i].name = Head(elements)
    THEN Lookup(node.entries[CHOOSE i \in 1..Len(node.entries) :
                               node.entries[i].name = Head(elements)],
                Tail(elements))
  ELSE NoEntry

(* os.Stat of a path relative to the working directory *)
Stat(path) == Lookup(WorkingDir, Split(path, "/"))

IsNotExist(path) == Stat(path) = NoEntry

(* filepath.Join of a directory path and a name *)
Join(dir, name) == IF dir = <<".">> THEN name ELSE dir \o <<"/">> \o name

hasGoFilesInDir(dir) ==
  \E i \in 1..Len(dir.entries) :
    ~dir.entries[i].isDir /\ HasSuffix(dir.entries[i].name, <<".","g","o">>)

(* filepath.Walk with the function of findGoPackages: info is the entry
   at path; a directory the function answers SkipDir for is left out
   with all below it *)
RECURSIVE walk(_, _)
walk(info, path) ==
  LET RECURSIVE walkEntries(_)
      walkEntries(entries) ==
        IF entries = <<>> THEN <<>>
        ELSE walk(Head(entries), Join(path, Head(entries).name))
             \o walkEntries(Tail(entries))
  IN IF info.isDir
          /\ (HasPrefix(info.name, <<".">>) \/ info.name = <<"v","e","n","d","o","r">>)
       THEN <<>>
     ELSE IF info.isDir
       THEN (IF hasGoFilesInDir(info) THEN <<path>> ELSE <<>>)
            \o walkEntries(info.entries)
     ELSE <<>>

findGoPackages(root) == walk(Stat(root), root)

ExpandPaths_KeepPattern(paths) == paths

RECURSIVE ExpandPaths(_)
ExpandPaths(paths) ==
  IF paths = <<>> THEN <<>>
  ELSE (IF Head(paths) = <<".","/",".",".",".">> THEN findGoPackages(<<".">>)
        ELSE << Head(paths) >>)
       \o ExpandPaths(Tail(paths))

(* the first positional argument Validate finds missing, 0 if none *)
firstMissingArg(args) ==
  LET missing == {i \in 1..Len(args) :
                    /\ args[i] # <<".","/",".",".",".">> /\ args[i] # <<".">>
                    /\ IsNotExist(args[i])}
  IN IF missing = {} THEN 0
     ELSE CHOOSE i \in missing : \A j \in missing : i <= j

Validate_ExistenceFirst(o) ==
  IF o.SourceFile # <<>> /\ o.PackagePath # <<>>
    THEN Errorf(<<"-","-","s","o","u","r","c","e"," ","a","n","d"," ","-","-","p","a","c","k","a","g","e"," ","f","l","a","g","s"," ","c","a","n","n","o","t"," ","b","e"," ","u","s","e","d"," ","t","o","g","e","t","h","e","r">>)
  ELSE IF o.SourceFile # <<>> /\ IsNotExist(o.SourceFile)
    THEN Errorf(<<"s","o","u","r","c","e"," ","f","i","l","e"," ","d","o","e","s"," ","n","o","t"," ","e","x","i","s","t",":"," ">> \o o.SourceFile)
  ELSE IF o.SourceFile # <<>> /\ ~HasSuffix(o.SourceFile, <<".","g","o">>)
    THEN Errorf(<<"s","o","u","r","c","e"," ","f","i","l","e"," ","m","u","s","t"," ","h","a","v","e"," ",".","g","o"," ","e","x","t","e","n","s","i","o","n",":"," ">> \o o.SourceFile)
  ELSE IF o.PackagePath # <<>> /\ IsNotExist(o.PackagePath)
    THEN Errorf(<<"p","a","c","k","a","g","e"," ","p","a","t","h"," ","d","o","e","s"," ","n","o","t"," ","e","x","i","s","t",":"," ">> \o o.PackagePath)
  ELSE IF firstMissingArg(o.PositionalArgs) # 0
    THEN Errorf(<<"p","a","t","h"," ","d","o","e","s"," ","n","o","t"," ","e","x","i","s","t",":"," ">>
                \o o.PositionalArgs[firstMissingArg(o.PositionalArgs)])
  ELSE NoError

(* Options.Validate *)
Validate(o) ==
  IF o.SourceFile # <<>> /\ o.PackagePath # <<>>
    THEN Errorf(<<"-","-","s","o","u","r","c","e"," ","a","n","d"," ","-","-","p","a","c","k","a","g","e"," ","f","l","a","g","s"," ","c","a","n","n","o","t"," ","b","e"," ","u","s","e","d"," ","t","o","g","e","t","h","e","r">>)
  ELSE IF o.SourceFile # <<>> /\ ~HasSuffix(o.SourceFile, <<".","g","o">>)
    THEN Errorf(<<"s","o","u","r","c","e"," ","f","i","l","e"," ","m","u","s","t"," ","h","a","v","e"," ",".","g","o"," ","e","x","t","e","n","s","i","o","n",":"," ">> \o o.SourceFile)
  ELSE IF o.SourceFile # <<>> /\ IsNotExist(o.SourceFile)
    THEN Errorf(<<"s","o","u","r","c","e"," ","f","i","l","e"," ","d","o","e","s"," ","n","o","t"," ","e","x","i","s","t",":"," ">> \o o.SourceFile)
  ELSE IF o.PackagePath # <<>> /\ IsNotExist(o.PackagePath)
    THEN Errorf(<<"p","a","c","k","a","g","e"," ","p","a","t","h"," ","d","o","e","s"," ","n","o","t"," ","e","x","i","s","t",":"," ">> \o o.PackagePath)
  ELSE IF firstMissingArg(o.PositionalArgs) # 0
    THEN Errorf(<<"p","a","t","h"," ","d","o","e","s"," ","n","o","t"," ","e","x","i","s","t",":"," ">>
                \o o.PositionalArgs[firstMissingArg(o.PositionalArgs)])
  ELSE NoError

GetProcessingTarget_PackageFirst(o) ==
  IF o.PackagePath # <<>>
    THEN [Mode |-> ModePackage, Paths |-> << o.PackagePath >>,
          UseFlags |-> TRUE]
  ELSE IF o.SourceFile # <<>>
    THEN [Mode |-> ModeSourceFile, Paths |-> << o.SourceFile >>,
          UseFlags |-> TRUE]
  ELSE IF Len(o.PositionalArgs) > 0
    THEN [Mode |-> ModePositional, Paths |-> o.PositionalArgs,
          UseFlags |-> FALSE]
  ELSE [Mode |-> ModeConfig, Paths |-> <<>>, UseFlags |-> FALSE]

(* Options.GetProcessingTarget *)
GetProcessingTarget(o) ==
  IF o.SourceFile # <<>>
    THEN [Mode |-> ModeSourceFile, Paths |-> << o.SourceFile >>,
          UseFlags |-> TRUE]
  ELSE IF o.PackagePath # <<>>
    THEN [Mode |-> ModePackage, Paths |-> << o.PackagePath >>,
          UseFlags |-> TRUE]
  ELSE IF Len(o.PositionalArgs) > 0
    THEN [Mode |-> ModePositional, Paths |-> o.PositionalArgs,
          UseFlags |-> FALSE]
  ELSE [Mode |-> ModeConfig, Paths |-> <<>>, UseFlags |-> FALSE]

(* ------------------------------------------------------------------ *)
(* inputs                                                              *)
(* ------------------------------------------------------------------ *)
RECURSIVE SeqsUpTo(_, _)
SeqsUpTo(S, n) ==
  IF n = 0 THEN {<<>>}
  ELSE LET shorter == SeqsUpTo(S, n - 1)
       IN shorter \cup {Append(s, x) : s \in {t \in shorter : Len(t) = n - 1},
                                       x \in S}

NoFile == [found |-> FALSE]

(* a key oak.yaml leaves out *)
Absent == <<"absent">>

(* oak.yaml files: has is the set of keys the file sets; messages and
   packageLists may hold Absent *)
YamlFiles(keyNames, messages, packageLists) ==
  { [found |-> TRUE,
     has |-> {"redactKeys"}
             \cup (IF m = Absent THEN {} ELSE {"redactMessage"})
             \cup (IF p = Absent THEN {} ELSE {"packages"}),
     packages |-> p, redactKeys |-> k, redactMessage |-> m] :
      k \in SeqsUpTo(keyNames, MaxKeys),
      m \in messages, p \in packageLists }

(* the types Go's grammar takes as an embedded field: T, *T, p.T, *p.T *)
Embeddable(ty) ==
  LET typeName(x) == \/ x.kind = "Ident"
                     \/ x.kind = "SelectorExpr" /\ x.X.kind = "Ident"
  IN typeName(ty) \/ (ty.kind = "StarExpr" /\ typeName(ty.X))

FieldGroups(nameLists, types, tags) ==
  { g \in { [Names |-> n, Type |-> ty, Tag |-> tg] :
              n \in nameLists, ty \in types, tg \in tags } :
      g.Names = <<>> => Embeddable(g.Type) }

StructTypes(groups, n) == { [Fields |-> l] : l \in SeqsUpTo(groups, n) }

Tag(value) == [Value |-> value]

NameID == <<"I","D">>
NamePw == <<"P","w">>
NamePW == <<"P","W">>
Namepw == <<"p","w">>
NamePwx == <<"P","w","x">>
Names == {NameID, Namepw, NamePw, NamePW, NamePwx}

TagSkip == Tag(<<Backquote,"l","o","g",":","\"","-","\"",Backquote>>)
TagRedact == Tag(<<Backquote,"l","o","g",":","\"","r","e","d","a","c","t","\"",Backquote>>)
TagJSON == Tag(<<Backquote,"j","s","o","n",":","\"","i","d","\"",Backquote>>)
TagJSONRedact == Tag(<<Backquote,"j","s","o","n",":","\"","n","\""," ","l","o","g",":","\"","r","e","d","a","c","t","\"",Backquote>>)

BasicNames == IntTypes \cup UintTypes \cup FloatTypes \cup {<<"s","t","r","i","n","g">>, <<"b","o","o","l">>}
TInt == Ident(<<"i","n","t">>)
TInt64 == Ident(<<"i","n","t","6","4">>)
TString == Ident(<<"s","t","r","i","n","g">>)
TUser == Ident(<<"U","s","e","r">>)

TypeExprs ==
  {Ident(n) : n \in BasicNames} \cup {TUser}
  \cup {StarExpr(Ident(n)) : n \in {<<"i","n","t">>, <<"i","n","t","3","2">>, <<"i","n","t","6","4">>, <<"u","i","n","t","8">>,
          <<"f","l","o","a","t","3","2">>, <<"f","l","o","a","t","6","4">>, <<"s","t","r","i","n","g">>, <<"b","o","o","l">>, <<"U","s","e","r">>}}
  \cup {StarExpr(StarExpr(TInt)), ArrayType(Nil, TString),
        ArrayType(BasicLit(<<"4">>), TInt), MapType(TString, TInt),
        SelectorExpr(Ident(<<"t","i","m","e">>), <<"T","i","m","e">>), InterfaceType, FuncType,
        StarExpr(ArrayType(Nil, TInt))}

Receivers == {<<"u">>, <<"s">>}

NoCall == [op |-> "none"]

(* no command line, no field value *)
NoOptions == [kind |-> "none"]
NoValue == [kind |-> "none"]

(* no path to process *)
NoTarget == [Mode |-> "none", Paths |-> <<>>]

InitWith(yamls, structs) ==
  /\ pc = "start"
  /\ yaml \in yamls
  /\ cfg = Nil
  /\ astStruct \in structs
  /\ extracted = Nil
  /\ lastAnalyses = [done |-> FALSE]
  /\ ret = NoCall
  /\ memo = Nil
  /\ srcTree = NoTarget
  /\ runLoop = [i |-> 1, allStructs |-> <<>>, err |-> NoError]
  /\ parseRet = NoCall
  /\ opts = NoOptions
  /\ cliRet = NoCall
  /\ written = <<>>
  /\ logged = NoValue

(* name-based policy: every name and tag, every casing of the triggers *)
Init ==
  InitWith({NoFile} \cup YamlFiles({<<"p","w">>, <<"P","w">>, <<"i","d">>},
                                   {Absent, <<>>, <<"[","H","I","D","D","E","N","]">>},
                                   {Absent, << <<>> >>}),
           StructTypes(FieldGroups({<<n>> : n \in Names}
                                     \cup {<<>>, <<NameID, NamePW>>},
                                   {TInt, StarExpr(TString),
                                    ArrayType(Nil, TString)},
                                   {Nil, TagSkip, TagRedact, TagJSON}), 1))

(* emission: every type shape, nullable or not, logged or redacted *)
InitEmit ==
  InitWith({NoFile} \cup YamlFiles({<<"p","w">>}, {<<"[","H","I","D","D","E","N","]">>},
                                   {Absent, << <<".","/","m","i","s","s","i","n","g">> >>}),
           StructTypes(FieldGroups({<<NameID>>, <<NamePW>>, <<>>},
                                   TypeExprs, {Nil, TagJSONRedact}), 1))

(* whole structs: up to MaxFields field groups *)
InitStruct ==
  InitWith({NoFile} \cup YamlFiles({<<"p","w">>}, {Absent},
                                   {Absent, << <<".","/","p","k","g">>, <<>> >>}),
           StructTypes(FieldGroups({<<NameID>>, <<NamePW>>}, {TInt},
                                   {Nil, TagSkip, TagRedact}), MaxFields))

(* field groups: no name, one name, several names *)
InitGroups ==
  InitWith({NoFile} \cup YamlFiles({}, {Absent}, {Absent}),
           StructTypes(FieldGroups({<<>>, <<NameID, NamePW>>}, {TUser},
                                   {Nil})
                         \cup FieldGroups({<<NameID>>, <<NamePw, NamePwx>>},
                                          {StarExpr(TString)}, {TagRedact}),
                       MaxFields))

(* type expressions of every shape, at the top and nested *)
AllTypeExprs ==
  TypeExprs
  \cup {ChanType(TInt), StructType(<<>>), ParenExpr(StarExpr(TUser)),
        IndexExpr(Ident(<<"L","i","s","t">>), TInt), Ident(<<"a","n","y">>),
        ArrayType(Nil, FuncType), ArrayType(Nil, InterfaceType),
        ArrayType(Nil, StarExpr(TUser)),
        ArrayType(Ident(<<"N">>), TInt),
        ArrayType(BasicLit(<<"4">>), ArrayType(BasicLit(<<"2">>), TString)),
        ArrayType(Nil, ArrayType(BasicLit(<<"8">>), StarExpr(TInt))),
        MapType(TString, ChanType(TInt)),
        MapType(TString, ArrayType(Nil, StarExpr(TUser))),
        MapType(InterfaceType, StructType(<<>>)),
        StarExpr(InterfaceType), StarExpr(ParenExpr(TUser)),
        StarExpr(SelectorExpr(Ident(<<"t","i","m","e">>), <<"T","i","m","e">>)),
        StarExpr(MapType(TString, TInt)),
        StarExpr(IndexExpr(Ident(<<"L","i","s","t">>), TInt))}

(* annotations: raw string literals, and one interpreted string literal *)
AllTags ==
  {Nil, TagSkip, TagRedact, TagJSON, TagJSONRedact,
   Tag(<<Backquote,"l","o","g",":","\"","r","e","d","a","c","t","\""," ","j","s","o","n",":","\"","n","a","m","e","\"",Backquote>>), Tag(<<Backquote,Backquote>>), Tag(<<Backquote,"l","o","g",":","\"","\"",Backquote>>),
   Tag(<<Backquote,"l","o","g",":","\"","\""," ","l","o","g",":","\"","r","e","d","a","c","t","\"",Backquote>>), Tag(<<Backquote,"l","o","g",":","\"","-","\""," ","l","o","g",":","\"","r","e","d","a","c","t","\"",Backquote>>),
   Tag(<<Backquote,"l","o","g",":","r","e","d","a","c","t"," ","l","o","g",":","\"","-","\"",Backquote>>), Tag(<<Backquote,"l","o","g",":"," ","l","o","g",":","\"","r","e","d","a","c","t","\"",Backquote>>),
   Tag(<<Backquote,"l","o","g","g","e","r",":","\"","x","\""," ","l","o","g",":","\"","-","\"",Backquote>>), Tag(<<Backquote,"x","l","o","g",":","\"","-","\"",Backquote>>),
   Tag(<<Backquote,"l","o","g",":","\"","a"," ","b","\""," ","l","o","g",":","\"","-","\"",Backquote>>), Tag(<<Backquote,"j","s","o","n",":","\"","n","\""," "," ","l","o","g",":","\"","-","\"",Backquote>>),
   Tag(<<Backquote,"j","s","o","n",":","\"","n","\""," ","l","o","g",":","\"","r","e","d","a","c","t",Backquote>>), Tag(<<"\"","l","o","g",":","\\","\"","-","\\","\"","\"">>)}

(* one field group of every type shape and annotation *)
InitFields ==
  InitWith({NoFile} \cup YamlFiles({}, {Absent}, {Absent}),
           StructTypes(FieldGroups({<<NameID>>, <<>>}, AllTypeExprs,
                                   AllTags), 1))

(* ------------------------------------------------------------------ *)
(* inputs: source files and directories                                *)
(* ------------------------------------------------------------------ *)
MaxDecls == 2
MaxPaths == 2

GroupID == [Names |-> <<NameID>>, Type |-> TInt, Tag |-> Nil]
GroupPw == [Names |-> <<NamePw>>, Type |-> StarExpr(TString),
            Tag |-> TagRedact]

GroupHook == [Names |-> << <<"H","o","o","k">> >>, Type |-> FuncType, Tag |-> Nil]

(* type User struct { ID int } *)
DeclUser == GenDecl("type", << TypeSpec(<<"U","s","e","r">>, StructType(<<GroupID>>)) >>)
(* type ( Count int; Order struct { Pw *string ...; Hook func() } ) *)
DeclGroup ==
  GenDecl("type", << TypeSpec(<<"C","o","u","n","t">>, TInt),
                     TypeSpec(<<"O","r","d","e","r">>, StructType(<<GroupPw, GroupHook>>)) >>)
(* type Level int *)
DeclLevel == GenDecl("type", << TypeSpec(<<"L","e","v","e","l">>, TInt) >>)
(* var std struct { ID int } *)
DeclVar == GenDecl("var", << ValueSpec(<<"s","t","d">>, StructType(<<GroupID>>)) >>)
(* func helper() { var n int; type local struct { ID int } } *)
DeclHelper ==
  FuncDecl(<<"h","e","l","p","e","r">>,
           << GenDecl("var", << ValueSpec(<<"n">>, TInt) >>),
              GenDecl("type",
                      << TypeSpec(<<"l","o","c","a","l">>, StructType(<<GroupID>>)) >>) >>)
(* func main() {} *)
DeclMain == FuncDecl(<<"m","a","i","n">>, <<>>)

Decls == {DeclUser, DeclGroup, DeclLevel, DeclVar, DeclHelper, DeclMain}

(* the comment groups of a file *)
CommentLists ==
  { <<>>,
    << << <<"/","/","g","o",":","g","e","n","e","r","a","t","e"," ","o","a","k">> >> >>,
    << << <<"/","/","g","o",":","g","e","n","e","r","a","t","e"," ","o","a","k"," ","-","-","v","e","r","b","o","s","e">> >> >>,
    << << <<"/","/","g","o",":","g","e","n","e","r","a","t","e"," ","m","o","c","k","g","e","n">> >> >>,
    << << <<"/","*","\n","g","o",":","g","e","n","e","r","a","t","e"," ","o","a","k","\n","*","/">> >> >>,
    << << <<"/","*"," ","g","o",":","g","e","n","e","r","a","t","e"," ","o","a","k"," ","-","v"," ","*","/">> >> >>,
    << << <<"/","/"," ","g","o",":","g","e","n","e","r","a","t","e"," ","o","a","k">> >> >>,
    << << <<"/","/","g","o",":","g","e","n","e","r","a","t","e"," ","o","a","k","l","e","y"," ","-","x">> >> >>,
    << << <<"/","/"," ","s","e","e"," ","g","o",":","g","e","n","e","r","a","t","e"," ","o","a","k">> >> >>,
    << << <<"/","/"," ","P","a","c","k","a","g","e"," ","m","o","d","e","l","s">> >>,
       << <<"/","/"," ","U","s","e","r"," ","i","s"," ","a"," ","u","s","e","r">>, <<"/","/","g","o",":","g","e","n","e","r","a","t","e"," ","o","a","k">> >> >>,
    << << <<"/","/","g","o",":","g","e","n","e","r","a","t","e"," ","s","t","r","i","n","g","e","r">>, <<"/","/","g","o",":","g","e","n","e","r","a","t","e"," ","m","o","c","k","g","e","n">> >> >> }

GoFile(path, name, comments, decls) ==
  [path |-> path, Name |-> name, syntaxOK |-> TRUE,
   Comments |-> comments, Decls |-> decls]

(* a file go/parser rejects *)
BrokenFile(path) ==
  [path |-> path, Name |-> <<>>, syntaxOK |-> FALSE,
   Comments |-> <<>>, Decls |-> <<>>]

Marker == << << <<"/","/","g","o",":","g","e","n","e","r","a","t","e"," ","o","a","k">> >> >>

(* -source: one file *)
SourceTargets ==
  { [Mode |-> ModeSourceFile,
     Paths |-> << [path |-> f.path, files |-> <<f>>] >>] :
      f \in {BrokenFile(<<"u","s","e","r",".","g","o">>)}
            \cup {GoFile(<<"u","s","e","r",".","g","o">>, <<"m","o","d","e","l","s">>, c, d) :
                    c \in CommentLists, d \in SeqsUpTo(Decls, MaxDecls)} }

Dir(path, files) ==
  [path |-> path,
   files |-> [i \in 1..Len(files) |->
                [files[i] EXCEPT !.path = path \o <<"/">> \o @]]]

(* the directories of the tests: user.go and order.go carry the marker,
   product.go does not *)
Dirs ==
  { Dir(<<".","/","m","o","d","e","l","s">>,
        << GoFile(<<"o","r","d","e","r",".","g","o">>, <<"m","o","d","e","l","s">>, Marker, <<DeclGroup>>),
           GoFile(<<"p","r","o","d","u","c","t",".","g","o">>, <<"m","o","d","e","l","s">>, <<>>, <<DeclLevel, DeclUser>>),
           GoFile(<<"u","s","e","r",".","g","o">>, <<"m","o","d","e","l","s">>, Marker, <<DeclUser, DeclHelper>>) >>),
    Dir(<<".","/","a","p","i">>,
        << GoFile(<<"a","p","i",".","g","o">>, <<"a","p","i">>, Marker, <<DeclUser>>),
           GoFile(<<"a","p","i","_","t","e","s","t",".","g","o">>, <<"a","p","i","_","t","e","s","t">>, Marker, <<DeclGroup>>),
           GoFile(<<"d","o","c",".","g","o">>, <<"a","p","i">>, <<>>, <<>>) >>),
    Dir(<<".","/","b","r","o","k","e","n">>,
        << GoFile(<<"a",".","g","o">>, <<"b","r","o","k","e","n">>, Marker, <<DeclUser>>),
           BrokenFile(<<"b",".","g","o">>) >>),
    Dir(<<".","/","p","l","a","i","n">>, << GoFile(<<"p","l","a","i","n",".","g","o">>, <<"p","l","a","i","n">>, <<>>, <<DeclUser>>) >>),
    Dir(<<".","/","e","m","p","t","y">>, <<>>) }

(* -package, positional arguments or the packages of oak.yaml *)
PackageTargets ==
  { [Mode |-> ModePackage, Paths |-> p] :
      p \in SeqsUpTo(Dirs, MaxPaths) \ {<<>>} }

InitParseWith(yamls, targets) ==
  /\ pc = "start"
  /\ yaml \in yamls
  /\ cfg = Nil
  /\ astStruct = Nil
  /\ extracted = Nil
  /\ lastAnalyses = [done |-> FALSE]
  /\ ret = NoCall
  /\ memo = Nil
  /\ srcTree \in targets
  /\ runLoop = [i |-> 1, allStructs |-> <<>>, err |-> NoError]
  /\ parseRet = NoCall
  /\ opts = NoOptions
  /\ cliRet = NoCall
  /\ written = <<>>
  /\ logged = NoValue

InitParse ==
  InitParseWith({NoFile} \cup YamlFiles({}, {Absent}, {Absent}),
                SourceTargets \cup PackageTargets)

(* ------------------------------------------------------------------ *)
(* the run                                                             *)
(* ------------------------------------------------------------------ *)
(* config.LoadConfig, as called by run *)
LoadConfig ==
  /\ pc = "start"
  /\ LET r == validate(Unmarshal(yaml, DefaultConfig))
     IN IF yaml.found /\ ~r.err
          THEN cfg' = r.config /\ pc' = "loaded"
          ELSE cfg' = Nil /\ pc' = "failed"
  /\ UNCHANGED <<yaml, astStruct, extracted, lastAnalyses, ret, memo, parseVars, cliVars,
                 outVars>>

(* Parser.extractFields on the struct declaration *)
ExtractFields ==
  /\ pc = "loaded"
  /\ extracted' = [Fields |-> extractFields(astStruct)]
  /\ pc' = "ready"
  /\ UNCHANGED <<yaml, cfg, astStruct, lastAnalyses, ret, memo, parseVars, cliVars,
                 outVars>>

AnalyzeFieldCall ==
  /\ pc = "ready"
  /\ \E i \in 1..Len(extracted.Fields) :
       LET field == extracted.Fields[i]
           call == [op |-> "AnalyzeField", field |-> field,
                    val |-> AnalyzeField(cfg, field)]
       IN /\ ret' = call
          /\ IF memo = Nil
               THEN memo' \in {Nil, [field |-> field, val |-> call.val,
                                     between |-> FALSE]}
             ELSE IF memo.field # field
               THEN memo' = [memo EXCEPT !.between = TRUE]
             ELSE memo' = memo
  /\ UNCHANGED <<pc, yaml, cfg, astStruct, extracted, lastAnalyses, parseVars, cliVars,
                 outVars>>

AnalyzeStructCall ==
  /\ pc = "ready"
  /\ LET val == AnalyzeStruct(cfg, extracted)
     IN /\ lastAnalyses' = [done |-> TRUE, list |-> val]
        /\ ret' = [op |-> "AnalyzeStruct", val |-> val]
  /\ UNCHANGED <<pc, yaml, cfg, astStruct, extracted, memo, parseVars, cliVars,
                 outVars>>

HasLoggableFieldsCall_Mutating ==
  /\ pc = "ready"
  /\ ret' = [op |-> "HasLoggableFields",
             val |-> HasLoggableFields(cfg, extracted)]
  /\ cfg' = [cfg EXCEPT !.RedactKeys = <<>>]
  /\ UNCHANGED <<pc, yaml, astStruct, extracted, lastAnalyses, memo, parseVars, cliVars,
                 outVars>>

HasLoggableFieldsCall ==
  /\ pc = "ready"
  /\ ret' = [op |-> "HasLoggableFields",
             val |-> HasLoggableFields(cfg, extracted)]
  /\ UNCHANGED <<pc, yaml, cfg, astStruct, extracted, lastAnalyses, memo, parseVars, cliVars,
                 outVars>>

GenerateLogStatementCall ==
  /\ pc = "ready"
  /\ lastAnalyses.done
  /\ \E j \in 1..Len(lastAnalyses.list), receiverName \in Receivers :
       ret' = [op |-> "GenerateLogStatement", analysis |-> lastAnalyses.list[j],
               receiverName |-> receiverName,
               val |-> GenerateLogStatement(lastAnalyses.list[j], receiverName)]
  /\ UNCHANGED <<pc, yaml, cfg, astStruct, extracted, lastAnalyses, memo, parseVars, cliVars,
                 outVars>>

Next ==
  \/ LoadConfig
  \/ ExtractFields
  \/ AnalyzeFieldCall
  \/ AnalyzeStructCall
  \/ HasLoggableFieldsCall
  \/ GenerateLogStatementCall

Spec == Init /\ [][Next]_vars

SpecEmit == InitEmit /\ [][Next]_vars

SpecStruct == InitStruct /\ [][Next]_vars

SpecGroups == InitGroups /\ [][Next]_vars

SpecFields == InitFields /\ [][Next]_vars

(* one turn of run's loop over the paths *)
ParsePath ==
  /\ pc = "loaded"
  /\ runLoop.i <= Len(srcTree.Paths)
  /\ LET unit == srcTree.Paths[runLoop.i]
     IN \E order \in RangeOrders(unit) :
          LET r == IF srcTree.Mode = ModeSourceFile
                     THEN ParseFile(unit.files[1], unit.path)
                     ELSE ParsePackage(unit, order)
          IN /\ parseRet' = [op |-> IF srcTree.Mode = ModeSourceFile
                                      THEN "ParseFile" ELSE "ParsePackage",
                             i |-> runLoop.i, val |-> r]
             /\ IF ~r.err.isNil
                  THEN /\ runLoop' =
                            [runLoop EXCEPT
                               !.err = Errorf(<<"f","a","i","l","e","d"," ","t","o"," ","p","a","r","s","e"," ">>
                                              \o unit.path \o <<":"," ">>
                                              \o r.err.msg)]
                       /\ pc' = "aborted"
                  ELSE /\ runLoop' =
                            [runLoop EXCEPT
                               !.i = @ + 1,
                               !.allStructs = @ \o r.result.Structs]
                       /\ pc' = pc
  /\ UNCHANGED <<yaml, cfg, astStruct, extracted, lastAnalyses, ret, memo,
                 srcTree, cliVars, outVars>>

(* the end of the loop: nothing found, or the structs go to the
   generator, which analyzes each of them *)
(* groupStructsByPackage keeping only the last struct of a package *)
RECURSIVE groupStructsByPackage_LastOnly(_)
groupStructsByPackage_LastOnly(structs) ==
  IF structs = <<>> THEN <<>>
  ELSE LET s == structs[Len(structs)]
           groups == groupStructsByPackage_LastOnly(
                       SubSeq(structs, 1, Len(structs) - 1))
       IN [n \in DOMAIN groups \cup {s.PackageName} |->
             IF n = s.PackageName THEN << s >> ELSE groups[n]]

(* the map from package name to structs, built in the order of structs:
   the groups reached after the last struct, from those before it *)
RECURSIVE groupStructsByPackage(_)
groupStructsByPackage(structs) ==
  IF structs = <<>> THEN <<>>
  ELSE LET s == structs[Len(structs)]
           groups == groupStructsByPackage(
                       SubSeq(structs, 1, Len(structs) - 1))
       IN [n \in DOMAIN groups \cup {s.PackageName} |->
             IF n = s.PackageName
               THEN (IF n \in DOMAIN groups THEN groups[n] ELSE <<>>)
                    \o << s >>
               ELSE groups[n]]

Generate ==
  /\ pc = "loaded"
  /\ runLoop.i > Len(srcTree.Paths)
  /\ IF Len(runLoop.allStructs) = 0
       THEN pc' = "done" /\ extracted' = extracted
       ELSE /\ pc' = "ready"
            /\ \E k \in 1..Len(runLoop.allStructs) :
                 extracted' = runLoop.allStructs[k]
  /\ UNCHANGED <<yaml, cfg, astStruct, lastAnalyses, ret, memo, parseVars, cliVars,
                 outVars>>

(* the package names of the groups generated and written so far *)
writtenNames == {written[i].packageName : i \in 1..Len(written)}

(* one turn of the loop over the package groups, which takes them in
   the order of the map: the group is generated and written, or the
   generator or the writer fails and the run returns the error (the
   cause of the failure is not part of the message here) *)
WriteGroup ==
  /\ pc = "ready"
  /\ LET packageStructs == groupStructsByPackage(runLoop.allStructs)
     IN \E packageName \in (DOMAIN packageStructs) \ writtenNames :
          \E outcome \in {"ok", "generate", "write"} :
            IF outcome = "ok"
              THEN /\ written' = Append(written,
                                        [packageName |-> packageName,
                                         structs |->
                                           packageStructs[packageName]])
                   /\ UNCHANGED <<pc, extracted, runLoop>>
              ELSE /\ runLoop' =
                        [runLoop EXCEPT !.err =
                           IF outcome = "generate"
                             THEN Errorf(<<"f","a","i","l","e","d"," ","t","o"," ","g","e","n","e","r","a","t","e"," ","c","o","d","e"," ","f","o","r"," ","p","a","c","k","a","g","e"," ">>
                                         \o packageName)
                             ELSE Errorf(<<"f","a","i","l","e","d"," ","t","o"," ","w","r","i","t","e"," ","g","e","n","e","r","a","t","e","d"," ","f","i","l","e">>)]
                   /\ pc' = "stopped"
                   /\ UNCHANGED <<extracted, written>>
  /\ UNCHANGED <<yaml, cfg, astStruct, lastAnalyses, ret, memo, srcTree,
                 parseRet, cliVars, logged>>

(* the loop over the package groups is through: run returns nil *)
Finish ==
  /\ pc = "ready"
  /\ DOMAIN groupStructsByPackage(runLoop.allStructs) = writtenNames
  /\ pc' = "done"
  /\ UNCHANGED <<yaml, cfg, astStruct, extracted, lastAnalyses, ret, memo,
                 parseVars, cliVars, outVars>>

NextRun ==
  \/ LoadConfig
  \/ ParsePath
  \/ Generate
  \/ WriteGroup
  \/ Finish
  \/ AnalyzeFieldCall
  \/ AnalyzeStructCall
  \/ HasLoggableFieldsCall
  \/ GenerateLogStatementCall

SpecParse == InitParse /\ [][NextRun]_vars

(* ------------------------------------------------------------------ *)
(* inputs: command lines                                               *)
(* ------------------------------------------------------------------ *)
MaxArgs == 2

(* the values of --source (empty: not given) *)
SourceFiles == {<<>>, <<"m","a","i","n",".","g","o">>, <<".","/","p","k","g","/","a",".","g","o">>, <<"g","o","n","e",".","g","o">>, <<"R","E","A","D","M","E",".","m","d">>,
                <<"n","o","t","e","s",".","t","x","t">>}

(* the values of --package (empty: not given) *)
PackagePaths == {<<>>, <<".","/","p","k","g">>, <<".","/","g","o","n","e">>}

PositionalPaths == {<<".","/",".",".",".">>, <<".">>, <<".","/","p","k","g">>, <<"p","k","g","/","s","u","b">>, <<".","/","g","o","n","e">>}

InitCli ==
  /\ pc = "start"
  /\ yaml = NoFile
  /\ cfg = Nil
  /\ astStruct = Nil
  /\ extracted = Nil
  /\ lastAnalyses = [done |-> FALSE]
  /\ ret = NoCall
  /\ memo = Nil
  /\ srcTree = NoTarget
  /\ runLoop = [i |-> 1, allStructs |-> <<>>, err |-> NoError]
  /\ parseRet = NoCall
  /\ opts \in [SourceFile : SourceFiles, PackagePath : PackagePaths,
               PositionalArgs : SeqsUpTo(PositionalPaths, MaxArgs)]
  /\ cliRet = NoCall
  /\ written = <<>>
  /\ logged = NoValue

ValidateCall ==
  /\ opts # NoOptions
  /\ cliRet' = [op |-> "Validate", val |-> Validate(opts)]
  /\ UNCHANGED <<pc, yaml, cfg, astStruct, extracted, lastAnalyses, ret,
                 memo, parseVars, opts, outVars>>

GetProcessingTargetCall ==
  /\ opts # NoOptions
  /\ cliRet' = [op |-> "GetProcessingTarget",
                val |-> GetProcessingTarget(opts)]
  /\ UNCHANGED <<pc, yaml, cfg, astStruct, extracted, lastAnalyses, ret,
                 memo, parseVars, opts, outVars>>

(* getProcessingPaths for positional arguments *)
ExpandPathsCall ==
  /\ opts # NoOptions
  /\ cliRet' = [op |-> "ExpandPaths", paths |-> opts.PositionalArgs,
                val |-> ExpandPaths(opts.PositionalArgs)]
  /\ UNCHANGED <<pc, yaml, cfg, astStruct, extracted, lastAnalyses, ret,
                 memo, parseVars, opts, outVars>>

NextCli ==
  \/ ValidateCall
  \/ GetProcessingTargetCall
  \/ ExpandPathsCall

SpecCli == InitCli /\ [][NextCli]_vars

(* ------------------------------------------------------------------ *)
(* inputs: integer fields and their values                             *)
(* ------------------------------------------------------------------ *)
MaxDelta == 1

WordSizes == {32, 64}

NameCount == <<"C","o","u","n","t">>

ZeroBits == [i \in 1..Limbs |-> 0]

(* the pattern of w bits with only the highest bit set *)
HighBit(w) ==
  [i \in 1..Limbs |-> IF i = TopLimb(w) THEN LimbMod(w, i) \div 2 ELSE 0]

(* the values within MaxDelta of zero and of the highest bit: the ends
   of the signed and of the unsigned range of w bits *)
EdgeValues(w) ==
  {AddInt(base, d, w) : base \in {ZeroBits, HighBit(w)},
                        d \in (0 - MaxDelta)..MaxDelta}

InitConv ==
  /\ pc = "loaded"
  /\ yaml = NoFile
  /\ cfg = DefaultConfig
  /\ astStruct = Nil
  /\ extracted = Nil
  /\ lastAnalyses = [done |-> FALSE]
  /\ ret = NoCall
  /\ memo = Nil
  /\ srcTree = NoTarget
  /\ runLoop = [i |-> 1, allStructs |-> <<>>, err |-> NoError]
  /\ parseRet = NoCall
  /\ opts = NoOptions
  /\ cliRet = NoCall
  /\ written = <<>>
  /\ \E typeName \in IntTypes \cup UintTypes, wordSize \in WordSizes,
        pointer \in BOOLEAN :
       \E bits \in EdgeValues(BitsOf(typeName, wordSize)) :
         logged = [kind |-> "field",
                   Field |-> fieldInfoOf(NameCount,
                               [Names |-> <<NameCount>>,
                                Type |-> IF pointer
                                         THEN StarExpr(Ident(typeName))
                                         ELSE Ident(typeName),
                                Tag |-> Nil]),
                   typeName |-> typeName,
                   wordSize |-> wordSize,
                   bits |-> bits]

(* the statement generated for the field, run on a struct holding the
   value (behind a non-nil pointer for a pointer field) *)
LogValue ==
  /\ logged # NoValue
  /\ logged.kind = "field"
  /\ LET stmt == GenerateLogStatement(AnalyzeField(cfg, logged.Field), <<"s">>)
     IN logged' =
          [kind |-> "logged", Field |-> logged.Field,
           typeName |-> logged.typeName, wordSize |-> logged.wordSize,
           bits |-> logged.bits, stmt |-> stmt,
           out |-> IF Contains(stmt, <<"i","n","t","6","4","(">>)
                   THEN int64(logged.typeName, logged.wordSize, logged.bits)
                   ELSE logged.bits]
  /\ UNCHANGED <<pc, yaml, cfg, astStruct, extracted, lastAnalyses, ret,
                 memo, parseVars, cliVars, written>>

NextConv == LogValue

SpecConv == InitConv /\ [][NextConv]_vars

TypeOK ==
  /\ pc \in {"start", "loaded", "failed", "ready", "aborted", "stopped",
            "done"}
  /\ (pc \in {"loaded", "ready", "aborted", "stopped", "done"}) = (cfg # Nil)
  /\ pc = "ready" => extracted # Nil
  /\ extracted # Nil => pc \in {"ready", "stopped", "done"}

(* ------------------------------------------------------------------ *)
(* properties                                                          *)
(* ------------------------------------------------------------------ *)
SameLetter(a, b) ==
  \/ a = b
  \/ \E i \in 1..Len(Uppers) : {a, b} = {Uppers[i], Lowers[i]}

(* equality of two strings when letter case is ignored *)
EqualFold(s, t) ==
  /\ Len(s) = Len(t)
  /\ \A i \in 1..Len(s) : SameLetter(s[i], t[i])

MatchesSome(name, keys) == \E i \in 1..Len(keys) : EqualFold(name, keys[i])

(* the trigger names as written in oak.yaml *)
ConfiguredKeys ==
  IF yaml.found /\ "redactKeys" \in yaml.has THEN yaml.redactKeys ELSE <<>>

(* C1: AnalyzeField assigns the action by the fixed order: directive "-"
   gives Skip, otherwise directive "redact" gives Redact, otherwise a
   trigger-name match gives Redact, otherwise Log; nothing else. *)
ActionPrecedence ==
  ret.op = "AnalyzeField" =>
    ret.val.Action =
      IF ret.field.LogTag = <<"-">> THEN ActionSkip
      ELSE IF ret.field.LogTag = <<"r","e","d","a","c","t">> THEN ActionRedact
      ELSE IF MatchesSome(ret.field.Name, cfg.RedactKeys) THEN ActionRedact
      ELSE ActionLog

(* a field with directive "-" whose name matches a trigger was skipped *)
SkipBeatsTrigger ==
  /\ ret.op = "AnalyzeField"
  /\ ret.field.LogTag = <<"-">>
  /\ MatchesSome(ret.field.Name, cfg.RedactKeys)
  /\ ret.val.Action = ActionSkip

(* C2: trigger matching ignores letter case on both sides: a field whose
   directive is not "-" and whose name equals a trigger of oak.yaml up to
   letter case is redacted; a name that equals no trigger up to case (for
   instance one that only contains a trigger) is not matched. *)
CaseInsensitiveTrigger ==
  (ret.op = "AnalyzeField" /\ ret.field.LogTag # <<"-">>) =>
    /\ MatchesSome(ret.field.Name, ConfiguredKeys)
         => ret.val.Action = ActionRedact
    /\ (~MatchesSome(ret.field.Name, ConfiguredKeys)
          /\ ret.field.LogTag # <<"r","e","d","a","c","t">>)
         => ret.val.Action = ActionLog

(* a field name in one casing was redacted by a trigger configured in
   another casing, neither of them lower-case *)
MixedCaseRedacted ==
  /\ ret.op = "AnalyzeField"
  /\ ret.field.LogTag = <<>>
  /\ ret.field.Name = NamePW
  /\ \E i \in 1..Len(ConfiguredKeys) : ConfiguredKeys[i] = <<"P","w">>
  /\ \A i \in 1..Len(ConfiguredKeys) : ConfiguredKeys[i] # NamePW
  /\ ret.val.Action = ActionRedact

(* C4: a field classified Redact carries the string strategy and the
   config's substitute message, whatever its type or nullability, and its
   statement is exactly slog.String("<name>", "<message>"). *)
RedactIsFixedShape ==
  /\ (ret.op = "AnalyzeField" /\ ret.val.Action = ActionRedact) =>
       /\ ret.val.SlogFunc = SlogString
       /\ ret.val.LogValue = cfg.RedactMessage
  /\ (ret.op = "GenerateLogStatement"
        /\ ret.analysis.Action = ActionRedact) =>
       ret.val = <<"s","l","o","g",".","S","t","r","i","n","g","(","\"">> \o ret.analysis.Field.Name \o <<"\"",","," ","\"">>
                 \o cfg.RedactMessage \o <<"\"",")">>

(* the statement of a redacted nullable field of a non-string type *)
RedactedPointerStatement ==
  /\ ret.op = "GenerateLogStatement"
  /\ ret.analysis.Action = ActionRedact
  /\ ret.analysis.Field.IsPointer
  /\ ret.val = <<"s","l","o","g",".","S","t","r","i","n","g","(","\"","I","D","\"",","," ","\"","[","H","I","D","D","E","N","]","\"",")">>

(* C10: two calls of AnalyzeField on the same field under the same config
   return the same FieldAnalysis, whatever analyzer calls lie between. *)
AnalyzeFieldDeterministic ==
  (ret.op = "AnalyzeField" /\ memo # Nil /\ memo.field = ret.field) =>
    ret.val = memo.val

(* the same field was analysed again after a call on another field *)
AnalysedTwice ==
  /\ ret.op = "AnalyzeField"
  /\ memo # Nil
  /\ memo.field = ret.field
  /\ memo.val = ret.val
  /\ memo.between

(* the statement holds a nil check of the field that emits the "null"
   sentinel, and a dereference of the field *)
HasNilBranch(stmt, analysis, receiverName) ==
  LET accessor == receiverName \o <<".">> \o analysis.Field.Name
  IN /\ Contains(stmt, <<"i","f"," ">> \o accessor \o <<" ","=","="," ","n","i","l"," ","{">>)
     /\ Contains(stmt, <<"r","e","t","u","r","n"," ","s","l","o","g",".","S","t","r","i","n","g","(","\"">> \o analysis.Field.Name
                       \o <<"\"",","," ","\"","n","u","l","l","\"",")">>)
     /\ Contains(stmt, <<"*">> \o accessor)

(* C3 as stated: every Log or Redact statement of a nullable field holds
   both a nil-check branch emitting "null" and a dereferencing branch. *)
NullableAlwaysWrapped ==
  (/\ ret.op = "GenerateLogStatement"
   /\ ret.analysis.Field.IsPointer
   /\ ret.analysis.Action \in {ActionLog, ActionRedact}) =>
    HasNilBranch(ret.val, ret.analysis, ret.receiverName)

(* C3 amended: every Log statement of a nullable field holds both a
   nil-check branch emitting "null" and a dereferencing branch. *)
NullableLogWrapped ==
  (/\ ret.op = "GenerateLogStatement"
   /\ ret.analysis.Field.IsPointer
   /\ ret.analysis.Action = ActionLog) =>
    HasNilBranch(ret.val, ret.analysis, ret.receiverName)

(* the statement of a logged pointer to a struct, of the generic strategy *)
PointerToStructLogged ==
  /\ ret.op = "GenerateLogStatement"
  /\ ret.analysis.Action = ActionLog
  /\ ret.analysis.Field.Type = <<"*","U","s","e","r">>
  /\ ret.analysis.SlogFunc = SlogAny
  /\ HasNilBranch(ret.val, ret.analysis, ret.receiverName)

(* the fixed table of the emission strategies *)
TableStrategy(sig) ==
  CASE sig \in {<<"i","n","t">>, <<"i","n","t","8">>, <<"i","n","t","1","6">>, <<"i","n","t","3","2">>, <<"i","n","t","6","4">>, <<"u","i","n","t">>, <<"u","i","n","t","8">>,
                <<"u","i","n","t","1","6">>, <<"u","i","n","t","3","2">>, <<"u","i","n","t","6","4">>} -> <<"s","l","o","g",".","I","n","t","6","4">>
    [] sig = <<"s","t","r","i","n","g">> -> <<"s","l","o","g",".","S","t","r","i","n","g">>
    [] sig = <<"b","o","o","l">> -> <<"s","l","o","g",".","B","o","o","l">>
    [] sig \in {<<"f","l","o","a","t","3","2">>, <<"f","l","o","a","t","6","4">>} -> <<"s","l","o","g",".","F","l","o","a","t","6","4">>
    [] OTHER -> <<"s","l","o","g",".","A","n","y">>

StripStar(sig) == IF sig # <<>> /\ Head(sig) = "*" THEN Tail(sig) ELSE sig

(* the strategy of a field whose type signature is sig *)
StrategyOf(sig) == TableStrategy(StripStar(sig))

(* C5 as stated: the strategy is the table's entry for the signature with
   one leading "*" stripped, so a field of type "*T" always has the
   strategy of a field of type T. *)
PointerSameStrategy ==
  (ret.op = "AnalyzeField" /\ ret.val.Action = ActionLog) =>
    /\ ret.val.SlogFunc = StrategyOf(ret.field.Type)
    /\ Head(ret.field.Type \o <<"">>) = "*" =>
         ret.val.SlogFunc = StrategyOf(Tail(ret.field.Type))

(* C5 amended: the strategy is the table's entry for the signature with
   one leading "*" stripped, so a field of type "*T" has the strategy of a
   field of type T whenever T is not itself a reference type; a field of
   type "**U" has the generic strategy. *)
StrategyTable ==
  (ret.op = "AnalyzeField" /\ ret.val.Action = ActionLog) =>
    /\ ret.val.SlogFunc = StrategyOf(ret.field.Type)
    /\ Head(ret.field.Type \o <<"">>) = "*" =>
         IF Head(Tail(ret.field.Type) \o <<"">>) = "*"
           THEN ret.val.SlogFunc = SlogAny
           ELSE ret.val.SlogFunc = StrategyOf(Tail(ret.field.Type))

(* a pointer to a 32-bit integer got the integer-64 strategy *)
PointerToInt32Strategy ==
  /\ ret.op = "AnalyzeField"
  /\ ret.val.Action = ActionLog
  /\ ret.field.Type = <<"*","i","n","t","3","2">>
  /\ ret.val.SlogFunc = SlogInt64

(* C6: the statement of a non-nullable logged field is one call
   <strategy>("<name>", <receiver>.<name>), the accessor wrapped in
   int64(...) or float64(...) exactly when the strategy is integer-64 or
   float-64 and the declared type is not int64 or float64 respectively. *)
NonNullableStatement ==
  (/\ ret.op = "GenerateLogStatement"
   /\ ret.analysis.Action = ActionLog
   /\ ~ret.analysis.Field.IsPointer) =>
    LET name == ret.analysis.Field.Name
        type == ret.analysis.Field.Type
        accessor == ret.receiverName \o <<".">> \o name
        strategy == ret.analysis.SlogFunc
        value == IF strategy = <<"s","l","o","g",".","I","n","t","6","4">> /\ type # <<"i","n","t","6","4">>
                   THEN <<"i","n","t","6","4","(">> \o accessor \o <<")">>
                 ELSE IF strategy = <<"s","l","o","g",".","F","l","o","a","t","6","4">> /\ type # <<"f","l","o","a","t","6","4">>
                   THEN <<"f","l","o","a","t","6","4","(">> \o accessor \o <<")">>
                 ELSE accessor
    IN ret.val = strategy \o <<"(","\"">> \o name \o <<"\"",","," ">> \o value \o <<")">>

(* an 8-bit unsigned field was widened, receiver u *)
Uint8Widened ==
  /\ ret.op = "GenerateLogStatement"
  /\ ret.analysis.Action = ActionLog
  /\ ret.analysis.Field.Type = <<"u","i","n","t","8">>
  /\ ret.val = <<"s","l","o","g",".","I","n","t","6","4","(","\"","I","D","\"",","," ","i","n","t","6","4","(","u",".","I","D",")",")">>

(* C7 as stated: the dereferenced branch of a nullable logged field holds
   a conversion exactly when the base type differs from the canonical type
   of the strategy, so *int64 and *float64 are emitted unconverted. *)
NullableSameWidening ==
  (/\ ret.op = "GenerateLogStatement"
   /\ ret.analysis.Action = ActionLog
   /\ ret.analysis.Field.IsPointer) =>
    LET base == Tail(ret.analysis.Field.Type)
        strategy == ret.analysis.SlogFunc
        deref == <<"*">> \o ret.receiverName \o <<".">>
                 \o ret.analysis.Field.Name
    IN /\ Contains(ret.val, <<"i","n","t","6","4","(">> \o deref \o <<")">>)
            = (strategy = <<"s","l","o","g",".","I","n","t","6","4">> /\ base # <<"i","n","t","6","4">>)
       /\ Contains(ret.val, <<"f","l","o","a","t","6","4","(">> \o deref \o <<")">>)
            = (strategy = <<"s","l","o","g",".","F","l","o","a","t","6","4">> /\ base # <<"f","l","o","a","t","6","4">>)

(* C7 amended: the dereferenced branch of a nullable logged field holds
   a conversion of the dereferenced value to int64 whenever the strategy is
   integer-64 and to float64 whenever it is float-64, whatever the base
   type, *int64 and *float64 included; the other strategies emit the
   dereferenced value unconverted. *)
NullableAlwaysConverted ==
  (/\ ret.op = "GenerateLogStatement"
   /\ ret.analysis.Action = ActionLog
   /\ ret.analysis.Field.IsPointer) =>
    LET name == ret.analysis.Field.Name
        accessor == ret.receiverName \o <<".">> \o name
        strategy == ret.analysis.SlogFunc
        value == IF strategy = <<"s","l","o","g",".","I","n","t","6","4">>
                   THEN <<"i","n","t","6","4","(","*">> \o accessor \o <<")">>
                 ELSE IF strategy = <<"s","l","o","g",".","F","l","o","a","t","6","4">>
                   THEN <<"f","l","o","a","t","6","4","(","*">> \o accessor \o <<")">>
                 ELSE <<"*">> \o accessor
    IN ret.val =
         <<"f","u","n","c","(",")"," ","s","l","o","g",".","A","t","t","r"," ","{","\n","\t","\t","\t","\t","i","f"," ">> \o accessor
         \o <<" ","=","="," ","n","i","l"," ","{","\n","\t","\t","\t","\t","\t","r","e","t","u","r","n"," ","s","l","o","g",".","S","t","r","i","n","g","(","\"">> \o name
         \o <<"\"",","," ","\"","n","u","l","l","\"",")","\n","\t","\t","\t","\t","}","\n","\t","\t","\t","\t","r","e","t","u","r","n"," ">> \o strategy \o <<"(","\"">>
         \o name \o <<"\"",","," ">> \o value \o <<")","\n","\t","\t","\t","}","(",")">>

(* a pointer to a 64-bit integer was emitted with a conversion *)
PointerToInt64Converted ==
  /\ ret.op = "GenerateLogStatement"
  /\ ret.analysis.Action = ActionLog
  /\ ret.analysis.Field.Type = <<"*","i","n","t","6","4">>
  /\ Contains(ret.val, <<"r","e","t","u","r","n"," ","s","l","o","g",".","I","n","t","6","4","(","\"","I","D","\"",","," ","i","n","t","6","4","(","*","s",".","I","D",")",")">>)

(* C8: HasLoggableFields is true exactly when some field of the record is
   classified with an action other than Skip; false for a record with no
   field and for one whose every field carries directive "-". *)
LoggableIffNotAllSkipped ==
  ret.op = "HasLoggableFields" =>
    /\ ret.val = (\E i \in 1..Len(extracted.Fields) :
                    AnalyzeField(cfg, extracted.Fields[i]).Action
                      # ActionSkip)
    /\ (\A i \in 1..Len(extracted.Fields) :
          extracted.Fields[i].LogTag = <<"-">>) => ret.val = FALSE

(* a record of several fields, all of them skipped, is not loggable *)
AllSkippedNotLoggable ==
  /\ ret.op = "HasLoggableFields"
  /\ Len(extracted.Fields) >= 2
  /\ \A i \in 1..Len(extracted.Fields) :
       extracted.Fields[i].LogTag = <<"-">>
  /\ ret.val = FALSE

(* C9: AnalyzeStruct returns one FieldAnalysis per field, in field order,
   the i-th being AnalyzeField of the i-th field alone. *)
AnalyzeStructPointwise ==
  ret.op = "AnalyzeStruct" =>
    /\ Len(ret.val) = Len(extracted.Fields)
    /\ \A i \in 1..Len(ret.val) :
         /\ ret.val[i].Field = extracted.Fields[i]
         /\ ret.val[i] = AnalyzeField(cfg, extracted.Fields[i])

(* fields with no directive, "-" and "redact" under an empty trigger set
   gave Log, Skip, Redact *)
LogSkipRedact ==
  /\ ret.op = "AnalyzeStruct"
  /\ cfg.RedactKeys = <<>>
  /\ [i \in 1..Len(extracted.Fields) |-> extracted.Fields[i].LogTag]
       = << <<>>, <<"-">>, <<"r","e","d","a","c","t">> >>
  /\ [i \in 1..Len(ret.val) |-> ret.val[i].Action]
       = <<ActionLog, ActionSkip, ActionRedact>>

(* ------------------------------------------------------------------ *)
(* properties of the extractor                                         *)
(* ------------------------------------------------------------------ *)
Parsed == parseRet.op # "none" /\ parseRet.val.err.isNil

(* the file or directory the last parse call was given *)
ParsedUnit == srcTree.Paths[parseRet.i]

NamesOf(structs) == [i \in 1..Len(structs) |-> structs[i].Name]

(* the descriptors of structs that come from the file at filePath *)
StructsFrom(structs, filePath) ==
  LET mine(s) == s.FilePath = filePath
  IN SelectSeq(structs, mine)

(* every spec of every declaration of a file, in source order, those in
   function bodies included *)
RECURSIVE SpecsIn(_)
SpecsIn(nodes) ==
  IF nodes = <<>> THEN <<>>
  ELSE (CASE Head(nodes).kind = "GenDecl" -> Head(nodes).Specs
          [] Head(nodes).kind = "FuncDecl" -> SpecsIn(Head(nodes).Body)
          [] OTHER -> <<>>)
       \o SpecsIn(Tail(nodes))

DeclaresStruct(spec) ==
  spec.kind = "TypeSpec" /\ spec.Type.kind = "StructType"

(* the names of the struct types a file declares, in source order *)
DeclaredStructNames(file) == NamesOf(SelectSeq(SpecsIn(file.Decls), DeclaresStruct))

(* C11: a parse call that succeeds returns, for every file that carries
   the marker, one descriptor per struct type the file declares, in
   source order, and no descriptor at all for a file without the marker
   (so ParseFile on such a file returns the empty list and no error) *)
MarkerGatesStructs ==
  Parsed =>
    LET structs == parseRet.val.result.Structs
        files == ParsedUnit.files
    IN /\ \A s \in 1..Len(structs) :
            \E i \in 1..Len(files) : structs[s].FilePath = files[i].path
       /\ \A i \in 1..Len(files) :
            NamesOf(StructsFrom(structs, files[i].path))
              = IF hasOakDirective(files[i])
                  THEN DeclaredStructNames(files[i]) ELSE <<>>

(* a package whose unmarked file declares a struct was parsed, and the
   marked files gave theirs *)
PackageSkipsUnmarked ==
  /\ Parsed
  /\ parseRet.op = "ParsePackage"
  /\ \E i \in 1..Len(ParsedUnit.files) :
       /\ ~hasOakDirective(ParsedUnit.files[i])
       /\ DeclaredStructNames(ParsedUnit.files[i]) # <<>>
  /\ Len(parseRet.val.result.Structs) >= 2

DirectiveToken == <<"g","o",":","g","e","n","e","r","a","t","e"," ","o","a","k">>

(* the comment text is the directive token alone or the token followed
   by arguments *)
IsOakDirective(text) ==
  \/ text = DirectiveToken
  \/ /\ HasPrefix(text, DirectiveToken)
     /\ IsSpace(text[Len(DirectiveToken) + 1])

NamesOakTool(file) ==
  \E g \in 1..Len(file.Comments) :
    \E k \in 1..Len(file.Comments[g]) :
      IsOakDirective(directiveText(file.Comments[g][k]))

(* C12: ParseFile treats a file as opted in, and returns the structs it
   declares, exactly when some comment of the file, its delimiters and
   the whitespace around it taken off, is the directive go:generate oak
   with or without arguments; a file whose go:generate comments all
   name another tool gives no struct *)
OptedInIffOakDirective ==
  (Parsed /\ parseRet.op = "ParseFile") =>
    NamesOf(parseRet.val.result.Structs)
      = IF NamesOakTool(ParsedUnit.files[1])
          THEN DeclaredStructNames(ParsedUnit.files[1]) ELSE <<>>

(* the names of the struct types declared at the top level of a file *)
TopLevelStructNames(file) ==
  LET top(n) == n.kind = "GenDecl" /\ n.Tok = "type"
      decls == SelectSeq(file.Decls, top)
      specs == Concat([i \in 1..Len(decls) |-> decls[i].Specs])
  IN NamesOf(SelectSeq(specs, DeclaresStruct))

(* C13: for a file that carries the marker ParseFile returns exactly the
   top-level type declarations that define a struct, in source order;
   other type declarations, functions with all that their bodies
   declare, and every other construct give no descriptor *)
OnlyTopLevelStructs ==
  (Parsed /\ parseRet.op = "ParseFile"
     /\ hasOakDirective(ParsedUnit.files[1]))
    => NamesOf(parseRet.val.result.Structs)
         = TopLevelStructNames(ParsedUnit.files[1])

(* the number of descriptors a field group gives *)
Width(group) == IF Len(group.Names) = 0 THEN 1 ELSE Len(group.Names)

RECURSIVE TotalWidth(_)
TotalWidth(groups) ==
  IF groups = <<>> THEN 0
  ELSE Width(Head(groups)) + TotalWidth(Tail(groups))

(* C14: the extracted fields follow the declaration order; a group with
   names gives one descriptor per name, in order, a group without a name
   gives one descriptor named by its rendered type; the descriptors of a
   group share its type, annotation and directive; the count is the sum
   over the groups of max(1, number of names) *)
FieldsFollowGroups ==
  (pc = "ready" /\ astStruct # Nil) =>
    LET groups == astStruct.Fields
        fields == extracted.Fields
    IN /\ Len(fields) = TotalWidth(groups)
       /\ \A g \in 1..Len(groups) :
            LET group == groups[g]
                offset == TotalWidth(SubSeq(groups, 1, g - 1))
                rendered == typeToString(group.Type)
            IN \A k \in 1..Width(group) :
                 LET f == fields[offset + k]
                 IN /\ f.Name = IF Len(group.Names) = 0 THEN rendered
                                 ELSE group.Names[k]
                    /\ f.Type = rendered
                    /\ f.Tag = (IF group.Tag = Nil THEN <<>>
                                ELSE group.Tag.Value)
                    /\ f.LogTag = fields[offset + 1].LogTag
                    /\ f.IsPointer = fields[offset + 1].IsPointer

(* a struct with a nameless group between two groups of two names *)
EmbeddedBetweenPairs ==
  /\ pc = "ready"
  /\ astStruct # Nil
  /\ Len(astStruct.Fields) = 3
  /\ Len(astStruct.Fields[1].Names) = 2
  /\ Len(astStruct.Fields[2].Names) = 0
  /\ Len(astStruct.Fields[3].Names) = 2
  /\ astStruct.Fields[1].Type # astStruct.Fields[3].Type
  /\ Len(extracted.Fields) = 5

(* the field group of a struct of one group, and its first descriptor *)
OneGroup == pc = "ready" /\ astStruct # Nil /\ Len(astStruct.Fields) = 1
TheGroup == astStruct.Fields[1]
TheField == extracted.Fields[1]

(* the expression is built from the six shapes of the grammar only *)
RECURSIVE Listed(_)
Listed(expr) ==
  CASE expr.kind = "Ident" -> TRUE
    [] expr.kind = "StarExpr" -> Listed(expr.X)
    [] expr.kind = "ArrayType" ->
         /\ expr.Len = Nil \/ expr.Len.kind \in {"BasicLit", "Ident"}
         /\ Listed(expr.Elt)
    [] expr.kind = "MapType" -> Listed(expr.Key) /\ Listed(expr.Value)
    [] expr.kind = "SelectorExpr" -> Listed(expr.X)
    [] OTHER -> FALSE

(* the signature the grammar gives, the length of an array written as
   declared *)
RECURSIVE Normalized(_)
Normalized(expr) ==
  CASE expr.kind = "Ident" -> expr.Name
    [] expr.kind = "StarExpr" -> <<"*">> \o Normalized(expr.X)
    [] expr.kind = "ArrayType" ->
         <<"[">>
         \o (IF expr.Len = Nil THEN <<>>
             ELSE IF expr.Len.kind = "BasicLit" THEN expr.Len.Value
             ELSE expr.Len.Name)
         \o <<"]">> \o Normalized(expr.Elt)
    [] expr.kind = "MapType" ->
         <<"m","a","p","[">> \o Normalized(expr.Key) \o <<"]">> \o Normalized(expr.Value)
    [] expr.kind = "SelectorExpr" ->
         Normalized(expr.X) \o <<".">> \o expr.Sel

(* C15: the type signature of a field whose type is built from
   identifiers, pointers, slices, arrays, maps and qualified names is the
   one the grammar gives, an array of declared length N giving [N] before
   the signature of its element *)
SignatureFollowsGrammar ==
  (OneGroup /\ Listed(TheGroup.Type))
    => TheField.Type = Normalized(TheGroup.Type)

(* the signature of the closed grammar; iface is what an interface type
   gives *)
RECURSIVE ClosedSignature(_, _)
ClosedSignature(expr, iface) ==
  CASE expr.kind = "Ident" -> expr.Name
    [] expr.kind = "StarExpr" -> <<"*">> \o ClosedSignature(expr.X, iface)
    [] expr.kind = "ArrayType" ->
         <<"[">>
         \o (IF expr.Len = Nil THEN <<>>
             ELSE ClosedSignature(expr.Len, iface))
         \o <<"]">> \o ClosedSignature(expr.Elt, iface)
    [] expr.kind = "MapType" ->
         <<"m","a","p","[">> \o ClosedSignature(expr.Key, iface) \o <<"]">>
         \o ClosedSignature(expr.Value, iface)
    [] expr.kind = "SelectorExpr" ->
         ClosedSignature(expr.X, iface) \o <<".">> \o expr.Sel
    [] expr.kind = "InterfaceType" -> iface
    [] OTHER -> <<"u","n","k","n","o","w","n">>

(* C16 as stated: whatever is not one of the six shapes, interface types
   included, gives the token unknown, at the top and at every nested
   position *)
UnlistedIsUnknown ==
  OneGroup => TheField.Type = ClosedSignature(TheGroup.Type, <<"u","n","k","n","o","w","n">>)

(* C16: whatever is not one of the six shapes gives the token unknown,
   at the top and at every nested position, but for an interface type,
   which gives interface{}; every expression has a signature *)
UnlistedIsUnknownOrInterface ==
  OneGroup => TheField.Type = ClosedSignature(TheGroup.Type, <<"i","n","t","e","r","f","a","c","e","{","}">>)

(* a map from an interface type to an inline struct type was extracted *)
InterfaceKeyedMap ==
  /\ OneGroup
  /\ TheGroup.Type = MapType(InterfaceType, StructType(<<>>))
  /\ TheField.Type = <<"m","a","p","[","i","n","t","e","r","f","a","c","e","{","}","]","u","n","k","n","o","w","n">>

(* C18: the IsPointer flag of a descriptor is true exactly when the type
   expression of its field is a pointer expression, and exactly when its
   type signature starts with a star *)
PointerFlagConsistent ==
  OneGroup =>
    /\ TheField.IsPointer = (TheGroup.Type.kind = "StarExpr")
    /\ TheField.IsPointer = HasPrefix(TheField.Type, <<"*">>)

(* a pointer to a slice *)
PointerToSlice ==
  /\ OneGroup
  /\ TheGroup.Type = StarExpr(ArrayType(Nil, TInt))
  /\ TheField.IsPointer
  /\ TheField.Type = <<"*","[","]","i","n","t">>

(* the space-separated tokens of an annotation, its backquotes taken off *)
TagTokens(group) ==
  IF group.Tag = Nil THEN <<>>
  ELSE LET raw == group.Tag.Value
           n == Len(raw)
       IN Split(IF n >= 2 /\ raw[1] = Backquote /\ raw[n] = Backquote
                  THEN SubSeq(raw, 2, n - 1) ELSE raw, " ")

HasLogKey(token) == HasPrefix(token, <<"l","o","g",":">>)

(* the token is log:"value" *)
QuotedLog(token) ==
  /\ HasPrefix(token, <<"l","o","g",":","\"">>)
  /\ Len(token) >= 6
  /\ token[Len(token)] = "\""

QuotedValue(token) ==
  IF QuotedLog(token) THEN SubSeq(token, 6, Len(token) - 1) ELSE <<>>

(* C17 as stated: the directive is the quoted value of the first token
   whose key is log, and empty when there is none; a later log token
   never determines it *)
FirstLogTokenDecides ==
  OneGroup =>
    LET logs == SelectSeq(TagTokens(TheGroup), HasLogKey)
    IN TheField.LogTag = IF logs = <<>> THEN <<>> ELSE QuotedValue(logs[1])

(* C17: the directive is the quoted value of the first token of the form
   log:"value", wherever it stands; it is empty when there is no
   annotation, no such token, or when that value is empty; a log token
   that is not of this form is passed over *)
FirstQuotedLogTokenDecides ==
  OneGroup =>
    LET logs == SelectSeq(TagTokens(TheGroup), QuotedLog)
    IN TheField.LogTag = IF logs = <<>> THEN <<>> ELSE QuotedValue(logs[1])

(* an unquoted log token stands before a quoted one, which decides *)
UnquotedLogPassedOver ==
  /\ OneGroup
  /\ LET logs == SelectSeq(TagTokens(TheGroup), HasLogKey)
     IN /\ Len(logs) = 2
        /\ ~QuotedLog(logs[1])
        /\ QuotedLog(logs[2])
        /\ TheField.LogTag = QuotedValue(logs[2])
        /\ TheField.LogTag # <<>>

(* some file of the unit is not valid Go *)
HasSyntaxError(unit) ==
  \E i \in 1..Len(unit.files) : ~unit.files[i].syntaxOK

(* the last analyzer call returned a value of its result type *)
AnalyzerReturned ==
  /\ "err" \notin DOMAIN ret
  /\ CASE ret.op = "AnalyzeField" ->
            ret.val.Action \in {ActionLog, ActionRedact, ActionSkip}
       [] ret.op = "AnalyzeStruct" ->
            /\ Len(ret.val) = Len(extracted.Fields)
            /\ \A i \in 1..Len(ret.val) :
                 ret.val[i].Action \in {ActionLog, ActionRedact, ActionSkip}
       [] ret.op = "HasLoggableFields" -> ret.val \in BOOLEAN
       [] ret.op = "GenerateLogStatement" -> Len(ret.val) >= 0
       [] OTHER -> TRUE

(* C19: a parse call fails exactly when a file it reads has a syntax
   error; it then returns no result and an error that names the path it
   was given; a file without marker, a field without annotation or of an
   unrecognized type give no error, and the analyzer operations return a
   value for every descriptor *)
FailsOnlyOnSyntaxError ==
  /\ parseRet.op # "none" =>
       /\ (~parseRet.val.err.isNil) = HasSyntaxError(ParsedUnit)
       /\ IF HasSyntaxError(ParsedUnit)
            THEN /\ parseRet.val.result = Nil
                 /\ Contains(parseRet.val.err.msg, ParsedUnit.path)
            ELSE parseRet.val.result # Nil
  /\ AnalyzerReturned

(* ParseFile was given a file with a syntax error *)
SyntaxErrorReported ==
  /\ parseRet.op = "ParseFile"
  /\ HasSyntaxError(ParsedUnit)
  /\ ~parseRet.val.err.isNil
  /\ pc = "aborted"

(* the structs the marked files of a unit declare are in allStructs *)
UnitExtracted(unit) ==
  \A i \in 1..Len(unit.files) :
    hasOakDirective(unit.files[i]) =>
      \A n \in 1..Len(DeclaredStructNames(unit.files[i])) :
        \E s \in 1..Len(runLoop.allStructs) :
          /\ runLoop.allStructs[s].FilePath = unit.files[i].path
          /\ runLoop.allStructs[s].Name
               = DeclaredStructNames(unit.files[i])[n]

(* C20: when a path fails to parse the error names that path, and the
   structs of every other path that can be parsed are extracted all the
   same *)
SyntaxErrorFatalToUnitOnly ==
  pc = "aborted" =>
    /\ Contains(runLoop.err.msg, srcTree.Paths[runLoop.i].path)
    /\ \A j \in 1..Len(srcTree.Paths) :
         ~HasSyntaxError(srcTree.Paths[j])
           => UnitExtracted(srcTree.Paths[j])

(* ------------------------------------------------------------------ *)
(* properties of repeated calls and of the run as a whole             *)
(* ------------------------------------------------------------------ *)
(* the number of structs a unit gives, which no order changes *)
UnitCount(unit) ==
  IF srcTree.Mode = ModeSourceFile
    THEN Len(ParseFile(unit.files[1], unit.path).result.Structs)
    ELSE Len(structsOfFiles(unit.files, [i \in 1..Len(unit.files) |-> i]))

RECURSIVE CountBefore(_)
CountBefore(j) ==
  IF j <= 1 THEN 0
  ELSE CountBefore(j - 1) + UnitCount(srcTree.Paths[j - 1])

(* what the call on the j-th path added to allStructs *)
StructsOfTurn(j) ==
  SubSeq(runLoop.allStructs, CountBefore(j) + 1,
         CountBefore(j) + UnitCount(srcTree.Paths[j]))

(* C21: a parse call on a file or directory that an earlier call of the
   run was given returns the same structs with the same fields in the
   same order as that earlier call *)
ExtractionDeterministic ==
  Parsed =>
    \A j \in 1..(parseRet.i - 1) :
      srcTree.Paths[j] = ParsedUnit
        => StructsOfTurn(j) = parseRet.val.result.Structs

(* C22: no call of AnalyzeField, AnalyzeStruct, HasLoggableFields or
   GenerateLogStatement changes the config the analyzer holds, neither
   its trigger names nor its substitute message *)
ConfigReadOnly == [][pc = "ready" => cfg' = cfg]_vars

(* every analyzer operation was called under a config with a trigger *)
AnalyzedUnderTriggers ==
  /\ pc = "ready"
  /\ cfg.RedactKeys # <<>>
  /\ memo # Nil
  /\ lastAnalyses.done
  /\ ret.op = "GenerateLogStatement"

IsLowerCase(s) == \A i \in 1..Len(s) : \A u \in 1..Len(Uppers) : s[i] # Uppers[u]

(* what oak.yaml holds, before validate *)
Unvalidated == Unmarshal(yaml, DefaultConfig)

(* C27: a config that validate accepted has lower-case trigger names and
   a non-empty message, the default for an empty one and the given one
   otherwise; a config with an empty package path is not accepted; and
   validate on an accepted config returns no error and the same config *)
ValidateNormalizes ==
  /\ cfg # Nil =>
       /\ \A k \in 1..Len(cfg.RedactKeys) : IsLowerCase(cfg.RedactKeys[k])
       /\ cfg.RedactMessage # <<>>
       /\ cfg.RedactMessage = IF Unvalidated.RedactMessage = <<>>
                                THEN DefaultRedactMessage
                                ELSE Unvalidated.RedactMessage
       /\ validate(cfg) = [config |-> cfg, err |-> FALSE]
  /\ (pc # "start" /\ yaml.found
        /\ \E i \in 1..Len(Unvalidated.Packages) :
             Unvalidated.Packages[i] = <<>>)
       => pc = "failed" /\ cfg = Nil

(* a file with an upper-case letter in a trigger name and an empty
   message was loaded *)
MixedCaseEmptyMessageLoaded ==
  /\ cfg # Nil
  /\ Unvalidated.RedactMessage = <<>>
  /\ \E k \in 1..Len(Unvalidated.RedactKeys) :
       ~IsLowerCase(Unvalidated.RedactKeys[k])
  /\ cfg.RedactMessage = DefaultRedactMessage

(* the field with another declared type *)
Retyped(field, ty) ==
  [field EXCEPT !.Type = typeToString(ty), !.IsPointer = isPointerType(ty)]

(* C28: the statement of a field classified Redact does not contain the
   accessor of the field, and a field of the same name and annotation
   with any other type or nullability, under any receiver name, is
   classified Redact as well and gets the identical statement *)
RedactIndependentOfShape ==
  (ret.op = "GenerateLogStatement" /\ ret.analysis.Action = ActionRedact) =>
    /\ ~Contains(ret.val,
                 getFieldAccessor(ret.analysis.Field, ret.receiverName))
    /\ \A ty \in TypeExprs, receiverName \in Receivers :
         LET other == AnalyzeField(cfg, Retyped(ret.analysis.Field, ty))
         IN /\ other.Action = ActionRedact
            /\ GenerateLogStatement(other, receiverName) = ret.val

(* a redacted pointer to string under the receiver s *)
RedactedUnderReceiverS ==
  /\ ret.op = "GenerateLogStatement"
  /\ ret.analysis.Action = ActionRedact
  /\ ret.analysis.Field.Type = <<"*","s","t","r","i","n","g">>
  /\ ret.receiverName = <<"s">>
  /\ ret.val # <<>>


(* ------------------------------------------------------------------ *)
(* properties of the command line                                      *)
(* ------------------------------------------------------------------ *)
(* the directories at or below a directory, each with its path and the
   names of the directories that lead to it from the working directory *)
RECURSIVE DirsBelow(_, _, _)
DirsBelow(node, path, names) ==
  {[dir |-> node, path |-> path, names |-> names]}
  \cup UNION {DirsBelow(node.entries[i], Join(path, node.entries[i].name),
                        Append(names, node.entries[i].name)) :
              i \in {j \in 1..Len(node.entries) : node.entries[j].isDir}}

Range(s) == {s[i] : i \in 1..Len(s)}

(* the directories "./..." stands for: those holding a .go file of
   their own, with no hidden or vendor directory on the way to them *)
GoPackageDirs ==
  {d.path : d \in {e \in DirsBelow(WorkingDir, <<".">>, <<>>) :
                     /\ hasGoFilesInDir(e.dir)
                     /\ \A i \in 1..Len(e.names) :
                          /\ ~HasPrefix(e.names[i], <<".">>)
                          /\ e.names[i] # <<"v","e","n","d","o","r">>}}

(* C23: "./..." expands to every directory at or below the working
   directory that holds a .go file of its own, hidden and vendor
   directories and all below them left out; a list without the pattern
   is returned as it is *)
PatternExpandsToGoPackages ==
  cliRet.op = "ExpandPaths" =>
    /\ <<".","/",".",".",".">> \in Range(cliRet.paths) => GoPackageDirs \subseteq Range(cliRet.val)
    /\ <<".","/",".",".",".">> \notin Range(cliRet.paths) => cliRet.val = cliRet.paths

(* C24: the processing target follows a fixed priority: a --source
   value gives source-file mode with that one path, else a --package
   value gives package mode with that one path, else positional
   arguments give positional mode with those arguments, else config mode
   with no paths; UseFlags is set in exactly the first two modes *)
TargetFollowsPriority ==
  cliRet.op = "GetProcessingTarget" =>
    LET t == cliRet.val
    IN /\ opts.SourceFile # <<>> =>
            t.Mode = ModeSourceFile /\ t.Paths = << opts.SourceFile >>
       /\ opts.SourceFile = <<>> /\ opts.PackagePath # <<>> =>
            t.Mode = ModePackage /\ t.Paths = << opts.PackagePath >>
       /\ opts.SourceFile = <<>> /\ opts.PackagePath = <<>>
            /\ opts.PositionalArgs # <<>> =>
            t.Mode = ModePositional /\ t.Paths = opts.PositionalArgs
       /\ opts.SourceFile = <<>> /\ opts.PackagePath = <<>>
            /\ opts.PositionalArgs = <<>> =>
            t.Mode = ModeConfig /\ t.Paths = <<>>
       /\ t.UseFlags <=> t.Mode \in {ModeSourceFile, ModePackage}

(* a target was asked for with both flags and positional arguments *)
SourceWinsOverAll ==
  /\ cliRet.op = "GetProcessingTarget"
  /\ opts.SourceFile # <<>>
  /\ opts.PackagePath # <<>>
  /\ opts.PositionalArgs # <<>>
  /\ cliRet.val.Mode = ModeSourceFile

BothFlags(o) == o.SourceFile # <<>> /\ o.PackagePath # <<>>

BadExtension(o) == o.SourceFile # <<>> /\ ~HasSuffix(o.SourceFile, <<".","g","o">>)

(* a path of the options is missing, the positional arguments in
   exempt not looked at *)
MissingPath(o, exempt) ==
  \/ o.SourceFile # <<>> /\ IsNotExist(o.SourceFile)
  \/ o.PackagePath # <<>> /\ IsNotExist(o.PackagePath)
  \/ \E i \in 1..Len(o.PositionalArgs) :
       o.PositionalArgs[i] \notin exempt /\ IsNotExist(o.PositionalArgs[i])

RejectsInOrder(exempt) ==
  cliRet.op = "Validate" =>
    /\ BothFlags(opts) =>
         cliRet.val =
           Errorf(<<"-","-","s","o","u","r","c","e"," ","a","n","d"," ","-","-","p","a","c","k","a","g","e"," ","f","l","a","g","s"," ","c","a","n","n","o","t"," ","b","e"," ","u","s","e","d"," ","t","o","g","e","t","h","e","r">>)
    /\ ~BothFlags(opts) /\ BadExtension(opts) =>
         cliRet.val = Errorf(<<"s","o","u","r","c","e"," ","f","i","l","e"," ","m","u","s","t"," ","h","a","v","e"," ",".","g","o"," ","e","x","t","e","n","s","i","o","n",":"," ">>
                             \o opts.SourceFile)
    /\ ~BothFlags(opts) /\ ~BadExtension(opts) /\ MissingPath(opts, exempt) =>
         ~cliRet.val.isNil
    /\ cliRet.val.isNil <=>
         ~(BothFlags(opts) \/ BadExtension(opts) \/ MissingPath(opts, exempt))

(* C25 as stated: Validate rejects both flags together first, then a
   source file without the .go extension, then any missing source file,
   package path or positional path, and accepts only when none of these
   holds *)
ValidateRejectsInOrder == RejectsInOrder({})

(* C25: Validate rejects both flags together first, then a source file
   without the .go extension, then a missing source file, package path
   or positional path other than "./..." and ".", and accepts only when
   none of these holds *)
ValidateRejectsInOrderButPatterns == RejectsInOrder({<<".","/",".",".",".">>, <<".">>})

(* a missing source file without the .go extension was rejected for its
   extension *)
ExtensionBeforeExistence ==
  /\ cliRet.op = "Validate"
  /\ ~BothFlags(opts)
  /\ BadExtension(opts)
  /\ IsNotExist(opts.SourceFile)
  /\ cliRet.val = Errorf(<<"s","o","u","r","c","e"," ","f","i","l","e"," ","m","u","s","t"," ","h","a","v","e"," ",".","g","o"," ","e","x","t","e","n","s","i","o","n",":"," ">>
                         \o opts.SourceFile)

(* C26: with --source or --package given, the positional arguments
   change neither the outcome of Validate nor the processing target *)
PositionalIgnoredWithFlags ==
  opts # NoOptions /\ (opts.SourceFile # <<>> \/ opts.PackagePath # <<>>) =>
    LET bare == [opts EXCEPT !.PositionalArgs = <<>>]
    IN /\ cliRet.op = "Validate" => cliRet.val = Validate(bare)
       /\ cliRet.op = "GetProcessingTarget" =>
            cliRet.val = GetProcessingTarget(bare)


(* ------------------------------------------------------------------ *)
(* properties of the emitted conversion                                *)
(* ------------------------------------------------------------------ *)
(* C29: the value handed to slog.Int64 is the number the field holds,
   for every type of the integer table *)
Int64PreservesValue ==
  logged # NoValue /\ logged.kind = "logged" =>
    Number(logged.out, 64, TRUE)
      = Number(logged.bits, BitsOf(logged.typeName, logged.wordSize),
               IsSigned(logged.typeName))


(* ------------------------------------------------------------------ *)
(* properties of the run                                               *)
(* ------------------------------------------------------------------ *)
(* the structs of a package among those extracted, in their order *)
OfPackage(structs, packageName) ==
  SelectSeq(structs, LAMBDA s : s.PackageName = packageName)

(* C30: a group is generated and written only after every path has been
   parsed; a run that fails to parse a path returns an error and a run
   that finds no struct returns success, both with nothing written;
   every group written holds all the structs of one package name in
   their extraction order, no package name is written twice, and a run
   that ends well has written the group of every struct *)
ParseAllThenGroupOnce ==
  /\ (pc \in {"ready", "stopped"} \/ written # <<>>) =>
       /\ runLoop.i = Len(srcTree.Paths) + 1
       /\ runLoop.allStructs # <<>>
  /\ pc = "aborted" => ~runLoop.err.isNil /\ written = <<>>
  /\ (pc = "done" /\ runLoop.allStructs = <<>>) =>
       runLoop.err.isNil /\ written = <<>>
  /\ \A i \in 1..Len(written) :
       /\ written[i].structs # <<>>
       /\ written[i].structs
            = OfPackage(runLoop.allStructs, written[i].packageName)
       /\ \A j \in 1..Len(written) :
            written[j].packageName = written[i].packageName => j = i
  /\ (pc = "done" /\ runLoop.allStructs # <<>>) =>
       /\ runLoop.err.isNil
       /\ \A k \in 1..Len(runLoop.allStructs) :
            \E i \in 1..Len(written) :
              written[i].packageName = runLoop.allStructs[k].PackageName

(* a run ended well whose structs of two packages were extracted in
   turns *)
InterleavedPackagesWritten ==
  /\ pc = "done"
  /\ Len(written) = 2
  /\ Len(runLoop.allStructs) = 4
  /\ runLoop.allStructs[1].PackageName # runLoop.allStructs[2].PackageName
  /\ runLoop.allStructs[1].PackageName = runLoop.allStructs[3].PackageName

============================================================================
